---- MODULE Spec2Model ----
(***************************************************************************)
(* Payment integration with a PSP simulator: the transaction state         *)
(* machine, the creation flow (TransactionService.createTransaction), the  *)
(* webhook coordinator (WebhookService.processWebhook) over the row-locking*)
(* repository (TransactionRepository), and the PSP simulator with its      *)
(* pending-3DS registry, expiry timers and notification callbacks.         *)
(*                                                                         *)
(* Every await of the code is a suspension point: an action runs from one  *)
(* await to the next.  Synchronous functions (processTransaction,          *)
(* resolve3dsTransaction, a timer callback) are one action each.           *)
(***************************************************************************)
EXTENDS Integers, Sequences, FiniteSets, Bags, TLC

\* ------------------------------------------------------------------ bounds
MaxTx == 1          \* createTransaction calls in a run
MaxHandlers == 2    \* webhook requests being handled at the same time
MaxAmount == 2      \* amounts range over 1..MaxAmount
MaxAttempts == 3
MaxResolves == 3
MaxSubmissions == 2    \* configured attempts of callPsp range over 1..MaxAttempts

TxIds == 1..MaxTx
PspIds == 1..MaxTx
Handlers == 1..MaxHandlers
Amounts == 1..MaxAmount

\* --------------------------------------------------- values and vocabulary
\* A nullable column or field: null is the empty sequence, a value v is <<v>>.
Null == <<>>
Some(v) == <<v>>

STATUSES == {"CREATED", "PENDING_3DS", "SUCCESS", "FAILED"}

\* Names every JavaScript object inherits from Object.prototype: a bracket
\* lookup on an object literal finds them although the literal does not
\* define them.
ObjectPrototypeKeys == {"constructor", "toString"}

\* Status strings handed to the state machine: the four statuses, a string
\* no object knows, and inherited property names.
StatusInputs == STATUSES \cup {"REFUNDED"} \cup ObjectPrototypeKeys

\* The application's own webhook endpoint (`${appBaseUrl}/webhooks/psp`) and
\* a callback target that is some other server.
AppWebhookUrl == "app/webhooks/psp"
OtherUrl == "other/hook"

\* Card numbers, as digit sequences (shortened to the prefix and one digit).
CardNumbers ==
    { <<4, 1, 1, 1, 1>>, <<5, 5, 5, 5, 1>>, <<4, 0, 0, 0, 1>>, <<9, 9, 9, 9, 1>> }

\* PSP status vocabulary seen by the webhook endpoint; "REFUNDED" is unmapped.
PspStatuses == {"SUCCESS", "FAILED", "REFUNDED"}

\* ----------------------------------------------------------- state machine
Return(v) == [throws |-> "none", value |-> v]
Throw(e) == [throws |-> e, value |-> FALSE]

VALID_TRANSITIONS ==
    [s \in STATUSES |->
        CASE s = "CREATED" -> {"PENDING_3DS", "SUCCESS", "FAILED"}
          [] s = "PENDING_3DS" -> {"SUCCESS", "FAILED"}
          [] s = "SUCCESS" -> {}
          [] s = "FAILED" -> {}]

\* VALID_TRANSITIONS[fromStatus]: the own property when there is one, an
\* inherited member of Object.prototype (a function, truthy, with no
\* `includes`) for an inherited name, undefined otherwise.
LookupTransitions(fromStatus) ==
    IF fromStatus \in DOMAIN VALID_TRANSITIONS
    THEN [kind |-> "array", items |-> VALID_TRANSITIONS[fromStatus]]
    ELSE IF fromStatus \in ObjectPrototypeKeys
    THEN [kind |-> "inherited", items |-> {}]
    ELSE [kind |-> "undefined", items |-> {}]

\* A transition table that lets a terminal status move to the other one.
canTransitionLoose(fromStatus, toStatus) ==
    Return(fromStatus # toStatus /\ toStatus \in {"SUCCESS", "FAILED"})

canTransition(fromStatus, toStatus) ==
    LET allowedTransitions == LookupTransitions(fromStatus) IN
    IF allowedTransitions.kind = "undefined" THEN Return(FALSE)
    ELSE IF allowedTransitions.kind = "inherited" THEN Throw("TypeError")
    ELSE Return(toStatus \in allowedTransitions.items)

\* An assertTransition that never throws.
assertTransitionSilent(fromStatus, toStatus) == "ok"

\* "ok" when it returns, otherwise the error thrown.
assertTransition(fromStatus, toStatus) ==
    LET can == canTransition(fromStatus, toStatus) IN
    IF can.throws # "none" THEN can.throws
    ELSE IF ~can.value THEN "Error: Invalid state transition"
    ELSE "ok"

\* The message of the Error assertTransition throws, word by word; no
\* message when it returns or when the lookup itself throws.
assertTransitionMessage(fromStatus, toStatus) ==
    IF assertTransition(fromStatus, toStatus) = "Error: Invalid state transition"
    THEN << "Invalid", "state", "transition", "from", "'", fromStatus, "'",
            "to", "'", toStatus, "'" >>
    ELSE << >>

\* A state machine that knows no terminal status.
isTerminalStatusNever(status) == FALSE

isTerminalStatus(status) == status = "SUCCESS" \/ status = "FAILED"

\* ---------------------------------------------------------------- state
VARIABLES
    transactions,            \* the transactions table: internal id -> row
    creations,               \* each createTransaction call: where it is
    nextPspId,               \* how many ids the PSP simulator has issued, plus one
    pending3dsTransactions,  \* simulator: Map pspTransactionId -> pending entry
    expiryTimers,            \* simulator: Map pspTransactionId -> timer handle
    timers,                  \* runtime: callbacks scheduled and not yet run
    inflight,                \* webhook requests sent to the application, not yet received
    handlers,                \* each processWebhook call: where it is
    registered,              \* history: each pending entry as processTransaction stored it
    sentLog,                 \* history: the sendWebhookCallback calls, per PSP id
    resolveFound,            \* history: ids for which resolve3dsTransaction returned found
    expiryRemoved,           \* history: ids whose entry the expiry callback removed
    accepted,                \* history: the webhook writes committed, per transaction
    smCall,                  \* a direct call of a state-machine function, and its result
    pspCall,                 \* a call of callPsp on its own: its loop, what it met, its outcome
    store,                   \* which ITransactionRepository the service was built with
    resolveLog,              \* history: the replies of GET /psp/3ds/:transactionId, in order
    createCall,              \* a call of the store's create on its own, and how it ended
    submissions,             \* concurrent calls of callPsp: the locals of each
    clients                  \* the pooled connection of each processWebhook call

\* What only the calls made on their own, and the route's replies, change.
callProbes == << smCall, pspCall, store, createCall, submissions, clients >>
probeVars == << callProbes, resolveLog >>

vars ==
    << transactions, creations, nextPspId, pending3dsTransactions, expiryTimers,
       timers, inflight, handlers, registered, sentLog, resolveFound,
       expiryRemoved, accepted, probeVars >>

appVars == << transactions, creations, handlers, accepted >>
pspVars ==
    << nextPspId, pending3dsTransactions, expiryTimers, timers, registered,
       sentLog, resolveFound, expiryRemoved >>

\* A JavaScript Map: set, delete, has.
MapSet(m, k, v) == [q \in DOMAIN m \cup {k} |-> IF q = k THEN v ELSE m[q]]
MapDelete(m, k) == [q \in DOMAIN m \ {k} |-> m[q]]
MapHas(m, k) == k \in DOMAIN m
EmptyMap == [q \in {} |-> Null]

\* No row with this id.
NoRow == [status |-> "absent", pspTransactionId |-> Null, finalAmount |-> Null]

\* cardNumber is the payload's card number, kept for the whole call;
\* response is what createTransaction returned.
IdleCreation ==
    [pc |-> "idle", cardNumber |-> Null, request |-> Null, pspResponse |-> Null,
     response |-> Null]

\* acquired tells that findAndLockByPspTransactionId returned its handle to
\* this call; commits and rollbacks count the calls of the handle's commit()
\* and rollback() this call has made.
IdleHandler ==
    [pc |-> "idle", payload |-> Null, origin |-> "none", newStatus |-> "none",
     acquired |-> FALSE, transaction |-> Null, write |-> Null, result |-> "none",
     commits |-> 0, rollbacks |-> 0]

\* A call that has not asked the pool yet. obtained tells that pool.connect()
\* gave it a client; releases counts its calls of client.release().
IdleClient == [pc |-> "idle", obtained |-> FALSE, releases |-> 0, result |-> "none"]

\* The row a call's handle read, when the lookup found one.
Found(w) == handlers[w].transaction # Null
FoundRow(w) == handlers[w].transaction[1]

InitApp ==
    /\ transactions = [t \in TxIds |-> NoRow]
    /\ creations = [t \in TxIds |-> IdleCreation]
    /\ handlers = [w \in Handlers |-> IdleHandler]
    /\ accepted = [t \in TxIds |-> << >>]
    /\ createCall = Null
    /\ clients = [w \in Handlers |-> IdleClient]

InitPsp ==
    /\ nextPspId = 1
    /\ pending3dsTransactions = EmptyMap
    /\ expiryTimers = EmptyMap
    /\ timers = EmptyBag
    /\ inflight = EmptyBag
    /\ registered = EmptyMap
    /\ sentLog = [p \in PspIds |-> << >>]
    /\ resolveFound = {}
    /\ resolveLog = << >>
    /\ expiryRemoved = {}

Init ==
    /\ InitApp /\ InitPsp
    /\ smCall = Null /\ pspCall = Null /\ store = "postgres" /\ submissions = << >>

\* --------------------------------------------------------- PSP simulator
CARD_PREFIX_RULES ==
    << [prefix |-> <<4, 1, 1, 1>>, status |-> "3DS_REQUIRED"],
       [prefix |-> <<5, 5, 5, 5>>, status |-> "SUCCESS"],
       [prefix |-> <<4, 0, 0, 0>>, status |-> "FAILED"] >>

DEFAULT_PSP_STATUS == "FAILED"

StartsWith(s, prefix) ==
    Len(s) >= Len(prefix) /\ SubSeq(s, 1, Len(prefix)) = prefix

\* A simulator that answers FAILED whatever the card.
determineOutcomeDefault(cardNumber) == DEFAULT_PSP_STATUS

\* The status of the first rule whose prefix the card number starts with.
determineOutcome(cardNumber) ==
    LET matching ==
            {i \in 1..Len(CARD_PREFIX_RULES) :
                StartsWith(cardNumber, CARD_PREFIX_RULES[i].prefix)}
    IN  IF matching = {} THEN DEFAULT_PSP_STATUS
        ELSE CARD_PREFIX_RULES[CHOOSE i \in matching : \A j \in matching : i <= j].status

WebhookPayload(pspTransactionId, finalAmount, status) ==
    [transactionId |-> pspTransactionId, final_amount |-> finalAmount, status |-> status]

\* A scheduled callback with what its closure captured.
Timer(kind, callbackUrl, pspTransactionId, amount, status) ==
    [kind |-> kind, callbackUrl |-> callbackUrl,
     pspTransactionId |-> pspTransactionId, amount |-> amount, status |-> status]

TimersOf(kind) == {tm \in BagToSet(timers) : tm.kind = kind}

\* sendWebhookCallback: one POST to callbackUrl.  Only a request to the
\* application's endpoint reaches the application.
sendWebhookCallback(callbackUrl, payload) ==
    /\ sentLog' = [sentLog EXCEPT ![payload.transactionId] =
                      Append(@, [callbackUrl |-> callbackUrl, payload |-> payload])]
    /\ inflight' = IF callbackUrl = AppWebhookUrl
                   THEN inflight (+) SetToBag({payload})
                   ELSE inflight

\* A sendWebhookCallback whose catch sends the notification again.
WebhookFetchFailsRetries(m) ==
    /\ m \in BagToSet(inflight)
    /\ sentLog' = [sentLog EXCEPT ![m.transactionId] =
                      Append(@, [callbackUrl |-> AppWebhookUrl, payload |-> m])]
    /\ UNCHANGED << appVars, nextPspId, pending3dsTransactions, expiryTimers, timers,
                    registered, resolveFound, expiryRemoved, inflight, probeVars >>

\* The fetch of sendWebhookCallback throws: the error is logged, nothing is retried.
WebhookFetchFails(m) ==
    /\ m \in BagToSet(inflight)
    /\ inflight' = inflight (-) SetToBag({m})
    /\ UNCHANGED << appVars, pspVars, probeVars >>

\* startExpiryTimer: schedule the expiry callback and keep its handle.
StartExpiryTimer(pspTransactionId, callbackUrl, amount) ==
    LET timer == Timer("expiry", callbackUrl, pspTransactionId, amount, "FAILED") IN
    /\ timers' = timers (+) SetToBag({timer})
    /\ expiryTimers' = MapSet(expiryTimers, pspTransactionId, timer)

\* An expiry callback that does not look whether the entry is still pending
\* and reports no amount.
ExpiryTimerCallbackBlind(tm) ==
    /\ tm \in TimersOf("expiry")
    /\ timers' = timers (-) SetToBag({tm})
    /\ pending3dsTransactions' = MapDelete(pending3dsTransactions, tm.pspTransactionId)
    /\ expiryTimers' = MapDelete(expiryTimers, tm.pspTransactionId)
    /\ expiryRemoved' = expiryRemoved \cup {tm.pspTransactionId}
    /\ sendWebhookCallback(tm.callbackUrl,
                           WebhookPayload(tm.pspTransactionId, Null, "FAILED"))
    /\ UNCHANGED << appVars, nextPspId, registered, resolveFound, probeVars >>

\* The callback startExpiryTimer scheduled runs.
ExpiryTimerCallback(tm) ==
    /\ tm \in TimersOf("expiry")
    /\ timers' = timers (-) SetToBag({tm})
    /\ IF MapHas(pending3dsTransactions, tm.pspTransactionId)
       THEN /\ pending3dsTransactions' =
                   MapDelete(pending3dsTransactions, tm.pspTransactionId)
            /\ expiryTimers' = MapDelete(expiryTimers, tm.pspTransactionId)
            /\ expiryRemoved' = expiryRemoved \cup {tm.pspTransactionId}
            /\ sendWebhookCallback(tm.callbackUrl,
                   WebhookPayload(tm.pspTransactionId, Some(tm.amount), "FAILED"))
       ELSE UNCHANGED << pending3dsTransactions, expiryTimers, expiryRemoved,
                         sentLog, inflight >>
    /\ UNCHANGED << appVars, nextPspId, registered, resolveFound, probeVars >>

\* The setImmediate callback of processTransaction runs.
ImmediateCallback(tm) ==
    /\ tm \in TimersOf("immediate")
    /\ timers' = timers (-) SetToBag({tm})
    /\ sendWebhookCallback(tm.callbackUrl,
           WebhookPayload(tm.pspTransactionId, Some(tm.amount), tm.status))
    /\ UNCHANGED << appVars, nextPspId, pending3dsTransactions, expiryTimers,
                    registered, resolveFound, expiryRemoved, probeVars >>

\* The 1500 ms callback of resolve3dsTransaction runs.
DelayTimerCallback(tm) ==
    /\ tm \in TimersOf("delay")
    /\ timers' = timers (-) SetToBag({tm})
    /\ sendWebhookCallback(tm.callbackUrl,
           WebhookPayload(tm.pspTransactionId, Some(tm.amount), "SUCCESS"))
    /\ UNCHANGED << appVars, nextPspId, pending3dsTransactions, expiryTimers,
                    registered, resolveFound, expiryRemoved, probeVars >>

\* A resolve that cancels the timer and keeps the pending entry.
resolve3dsTransactionKeepsEntry(pspTransactionId) ==
    /\ MapHas(pending3dsTransactions, pspTransactionId)
    /\ LET pendingTransaction == pending3dsTransactions[pspTransactionId] IN
       /\ resolveFound' = resolveFound \cup {pspTransactionId}
       /\ timers' = timers (+) SetToBag({Timer("delay", pendingTransaction.callbackUrl,
                        pspTransactionId, pendingTransaction.amount, "SUCCESS")})
    /\ UNCHANGED << appVars, nextPspId, pending3dsTransactions, expiryTimers,
                    registered, sentLog, inflight, expiryRemoved,
                    callProbes >>

\* A resolve that removes the pending entry and leaves the expiry timer
\* running, its handle kept.
resolve3dsTransactionLeavesTimer(pspTransactionId) ==
    /\ MapHas(pending3dsTransactions, pspTransactionId)
    /\ LET pendingTransaction == pending3dsTransactions[pspTransactionId] IN
       /\ pending3dsTransactions' = MapDelete(pending3dsTransactions, pspTransactionId)
       /\ resolveFound' = resolveFound \cup {pspTransactionId}
       /\ timers' = timers (+) SetToBag({Timer("delay", pendingTransaction.callbackUrl,
                        pspTransactionId, pendingTransaction.amount, "SUCCESS")})
    /\ UNCHANGED << appVars, nextPspId, expiryTimers, registered, sentLog, inflight,
                    expiryRemoved, callProbes >>

\* A resolve that, for an id no longer pending, sends the SUCCESS of the
\* entry once registered again.
resolve3dsTransactionReschedules(pspTransactionId) ==
    /\ IF MapHas(registered, pspTransactionId)
       THEN timers' = timers (+)
                SetToBag({Timer("delay", registered[pspTransactionId].callbackUrl,
                    pspTransactionId, registered[pspTransactionId].amount, "SUCCESS")})
       ELSE UNCHANGED timers
    /\ pending3dsTransactions' = MapDelete(pending3dsTransactions, pspTransactionId)
    /\ expiryTimers' = MapDelete(expiryTimers, pspTransactionId)
    /\ resolveFound' = resolveFound \cup {pspTransactionId}
    /\ UNCHANGED << appVars, nextPspId, registered, sentLog, inflight, expiryRemoved,
                    callProbes >>

\* resolve3dsTransaction, with cancelExpiryTimer inlined. What the caller
\* does with the result (resolveLog) is the caller's part of the step.
resolve3dsTransaction(pspTransactionId) ==
    /\ IF ~MapHas(pending3dsTransactions, pspTransactionId)
       THEN \* return { found: false }
            UNCHANGED << pending3dsTransactions, expiryTimers, timers, resolveFound >>
       ELSE LET pendingTransaction == pending3dsTransactions[pspTransactionId]
                cancelled ==
                    IF MapHas(expiryTimers, pspTransactionId)
                    THEN timers (-) SetToBag({expiryTimers[pspTransactionId]})
                    ELSE timers
            IN  /\ pending3dsTransactions' =
                       MapDelete(pending3dsTransactions, pspTransactionId)
                /\ expiryTimers' = MapDelete(expiryTimers, pspTransactionId)
                /\ timers' = cancelled (+)
                       SetToBag({Timer("delay", pendingTransaction.callbackUrl,
                           pspTransactionId, pendingTransaction.amount, "SUCCESS")})
                /\ resolveFound' = resolveFound \cup {pspTransactionId}
    /\ UNCHANGED << appVars, nextPspId, registered, sentLog, inflight, expiryRemoved,
                    callProbes >>

\* processTransaction, run by the simulator for the request of creation t.
processTransaction(t) ==
    /\ creations[t].pc = "callPsp"
    /\ nextPspId \in PspIds
    /\ LET request == creations[t].request[1]
           pspTransactionId == nextPspId
           outcome == determineOutcome(request.cardNumber)
           direct == outcome = "SUCCESS" \/ outcome = "FAILED"
       IN  /\ nextPspId' = nextPspId + 1
           /\ IF direct
              THEN /\ timers' = timers (+) SetToBag({Timer("immediate",
                          request.callbackUrl, pspTransactionId, request.amount, outcome)})
                   /\ UNCHANGED << pending3dsTransactions, expiryTimers, registered >>
              ELSE /\ registered' = MapSet(registered, pspTransactionId,
                              [pspTransactionId |-> pspTransactionId,
                               callbackUrl |-> request.callbackUrl,
                               amount |-> request.amount])
                   /\ pending3dsTransactions' =
                          MapSet(pending3dsTransactions, pspTransactionId,
                              [pspTransactionId |-> pspTransactionId,
                               callbackUrl |-> request.callbackUrl,
                               amount |-> request.amount])
                   /\ StartExpiryTimer(pspTransactionId, request.callbackUrl,
                                       request.amount)
           /\ creations' = [creations EXCEPT ![t] =
                  [@ EXCEPT !.pc = "gotResponse", !.request = Null,
                   !.pspResponse = Some([transactionId |-> pspTransactionId,
                       status |-> outcome,
                       threeDsRedirectUrl |->
                           IF direct THEN Null ELSE Some(pspTransactionId)])]]
    /\ UNCHANGED << transactions, handlers, accepted, inflight, sentLog,
                    resolveFound, expiryRemoved, probeVars >>

\* ------------------------------------------------------------ repository
\* The handlers that hold the row lock of transaction t: from the locking
\* SELECT ... FOR UPDATE to COMMIT or ROLLBACK.
LockHoldingPcs ==
    {"commitDuplicate", "rollbackConflict", "updateStatus", "commit", "catchRollback",
     "held", "heldUpdated", "heldFailed"}

RowLockedBy(t) ==
    {w \in Handlers :
        /\ handlers[w].pc \in LockHoldingPcs
        /\ handlers[w].transaction # Null
        /\ handlers[w].transaction[1].id = t}

\* A lookup that takes any stored row for the one asked for.
RowsByPspTransactionIdAny(pspTransactionId) ==
    {t \in TxIds : transactions[t].status # "absent"}

\* A store that locks the whole table for the holder of a handle.
RowLockFreeTable(t) == \A u \in DOMAIN transactions : RowLockedBy(u) = {}

\* A store whose find-and-lock takes no lock.
RowLockFreeAlways(t) == TRUE

\* An UPDATE that sets psp_transaction_id to NULL when no id is passed.
SetClausesClearsId(row, status, extraFields) ==
    [status |-> status, pspTransactionId |-> extraFields.pspTransactionId,
     finalAmount |->
        IF extraFields.finalAmount # Null
        THEN extraFields.finalAmount ELSE row.finalAmount]

\* A handle that writes the stored row as soon as updateStatus is called.
WritesInPlaceAlways(repository) == TRUE

\* The handle's updateStatus of the Map-backed store calls this.updateStatus,
\* which assigns the fields of the stored object; the PostgreSQL handle runs
\* its UPDATE inside the database transaction opened by BEGIN.
WritesInPlace(repository) == repository = "memory"

\* A statement that needs the row's lock can run. The Map-backed store has
\* no lock: its lookup returns a copy of the row at once.
RowLockFree(t) == store = "memory" \/ RowLockedBy(t) = {}

\* SELECT * FROM transactions WHERE psp_transaction_id = $1
RowsByPspTransactionId(pspTransactionId) ==
    {t \in DOMAIN transactions :
        transactions[t].pspTransactionId = Some(pspTransactionId)}

\* UPDATE transactions SET status, [psp_transaction_id], [final_amount]:
\* an extra field is written only when it is not undefined.
SetClauses(row, status, extraFields) ==
    [status |-> status,
     pspTransactionId |->
        IF extraFields.pspTransactionId # Null
        THEN extraFields.pspTransactionId ELSE row.pspTransactionId,
     finalAmount |->
        IF extraFields.finalAmount # Null
        THEN extraFields.finalAmount ELSE row.finalAmount]

\* --------------------------------------------------------- creation flow
\* A creation flow that leaves every answered transaction pending, the
\* terminal status being the notification's to write.
statusMappingAllPending(pspStatus) ==
    IF pspStatus \in {"SUCCESS", "FAILED", "3DS_REQUIRED"} THEN "PENDING_3DS"
    ELSE "undefined"

\* statusMapping[pspResponse.status]: a plain object, so an inherited name
\* yields a truthy value that is no status.
statusMapping(pspStatus) ==
    CASE pspStatus = "SUCCESS" -> "SUCCESS"
      [] pspStatus = "FAILED" -> "FAILED"
      [] pspStatus = "3DS_REQUIRED" -> "PENDING_3DS"
      [] pspStatus \in ObjectPrototypeKeys -> "[Function]"
      [] OTHER -> "undefined"

\* createTransaction up to its call of the PSP: the row is inserted as CREATED
\* under a fresh uuid, an id no row has.
\* A missing callbackUrl is replaced by the application's webhook endpoint.
CreateTransaction(t, amount, cardNumber, callbackUrl) ==
    /\ creations[t].pc = "idle"
    /\ transactions[t].status = "absent"
    /\ \A u \in TxIds : u < t => creations[u].pc # "idle"
    /\ transactions' = [transactions EXCEPT ![t] =
           [status |-> "CREATED", pspTransactionId |-> Null, finalAmount |-> Null]]
    /\ creations' = [creations EXCEPT ![t] =
           [pc |-> "callPsp", cardNumber |-> Some(cardNumber),
            request |-> Some([amount |-> amount, cardNumber |-> cardNumber,
                callbackUrl |-> IF callbackUrl = Null THEN AppWebhookUrl
                                ELSE callbackUrl[1]]),
            pspResponse |-> Null, response |-> Null]]
    /\ UNCHANGED << handlers, accepted, pspVars, inflight, probeVars >>

\* callPsp throws (a permanent error, or the attempts are used up):
\* createTransaction throws with the row left as inserted.
CallPspFails(t) ==
    /\ creations[t].pc = "callPsp"
    /\ creations' = [creations EXCEPT ![t] =
           [@ EXCEPT !.pc = "failed", !.request = Null]]
    /\ UNCHANGED << transactions, handlers, accepted, pspVars, inflight, probeVars >>

\* createTransaction after the PSP answered: map the status, validate the
\* transition on the local copy (status CREATED), write status and PSP id.
CreationUpdateStatus(t) ==
    /\ creations[t].pc = "gotResponse"
    /\ LET pspResponse == creations[t].pspResponse[1]
           newStatus == statusMapping(pspResponse.status)
       IN  IF newStatus = "undefined" \/ assertTransition("CREATED", newStatus) # "ok"
           THEN /\ creations' = [creations EXCEPT ![t].pc = "failed"]
                /\ UNCHANGED transactions
           ELSE LET updated == SetClauses(transactions[t], newStatus,
                               [pspTransactionId |-> Some(pspResponse.transactionId),
                                finalAmount |-> Null])
                IN  /\ RowLockFree(t)
                    /\ transactions' = [transactions EXCEPT ![t] = updated]
                    /\ creations' = [creations EXCEPT ![t].pc = "done",
                           ![t].response =
                               Some([status |-> updated.status,
                                     pspTransactionId |-> updated.pspTransactionId,
                                     threeDsRedirectUrl |->
                                         pspResponse.threeDsRedirectUrl])]
    /\ UNCHANGED << handlers, accepted, pspVars, inflight, probeVars >>

\* ------------------------------------------------------- webhook service
\* PSP_STATUS_MAP[pspStatus]: an inherited name yields a truthy value that
\* is no status.
PSP_STATUS_MAP(pspStatus) ==
    IF pspStatus \in {"SUCCESS", "FAILED"} THEN pspStatus
    ELSE IF pspStatus \in ObjectPrototypeKeys THEN "[Function]"
    ELSE "undefined"

HandlerFree(w) ==
    /\ handlers[w].pc = "idle"
    /\ \A v \in Handlers : v < w => handlers[v].pc # "idle"

\* processWebhook up to its first await: an unmapped status fails with 400
\* before anything is locked.
StartProcessWebhook(w, payload, origin) ==
    LET newStatus == PSP_STATUS_MAP(payload.status) IN
    handlers' = [handlers EXCEPT ![w] =
        IF newStatus = "undefined"
        THEN [IdleHandler EXCEPT !.pc = "done", !.payload = Some(payload),
                                 !.origin = origin, !.result = "400"]
        ELSE [IdleHandler EXCEPT !.pc = "findAndLock", !.payload = Some(payload),
                                 !.origin = origin, !.newStatus = newStatus]]

\* A notification the simulator sent reaches POST /webhooks/psp.
WebhookRequestArrives(w, m) ==
    /\ HandlerFree(w)
    /\ m \in BagToSet(inflight)
    /\ inflight' = inflight (-) SetToBag({m})
    /\ StartProcessWebhook(w, m, "psp")
    /\ UNCHANGED << transactions, creations, accepted, pspVars, probeVars >>

\* Some other caller posts a notification to POST /webhooks/psp.
ExternalWebhook(w, payload) ==
    /\ HandlerFree(w)
    /\ StartProcessWebhook(w, payload, "external")
    /\ UNCHANGED << transactions, creations, accepted, pspVars, inflight, probeVars >>

\* findAndLockByPspTransactionId resolves (BEGIN; SELECT ... FOR UPDATE waits
\* for the lock of every row it selects), and processWebhook runs to its
\* next await: rollback (not found), commit (duplicate), rollback (conflict)
\* or the handle's updateStatus.
FindAndLock(w) ==
    /\ handlers[w].pc = "findAndLock"
    /\ LET h == handlers[w]
           found == RowsByPspTransactionId(h.payload[1].transactionId)
       IN  /\ \A t \in found : RowLockFree(t)
           /\ IF found = {}
              THEN handlers' = [handlers EXCEPT ![w].pc = "rollbackNotFound",
                                               ![w].acquired = TRUE]
              ELSE LET t == CHOOSE x \in found : \A y \in found : x <= y
                       row == transactions[t]
                       next ==
                           IF isTerminalStatus(row.status) /\ row.status = h.newStatus
                           THEN "commitDuplicate"
                           ELSE IF assertTransition(row.status, h.newStatus) # "ok"
                           THEN "rollbackConflict"
                           ELSE "updateStatus"
                   IN  handlers' = [handlers EXCEPT ![w].pc = next,
                           ![w].acquired = TRUE,
                           ![w].transaction =
                               Some([id |-> t, status |-> row.status,
                                     pspTransactionId |-> row.pspTransactionId,
                                     finalAmount |-> row.finalAmount])]
    /\ UNCHANGED << transactions, creations, accepted, pspVars, inflight, probeVars >>

\* ROLLBACK after the lookup found nothing: 404.
RollbackNotFound(w) ==
    /\ handlers[w].pc = "rollbackNotFound"
    /\ handlers' = [handlers EXCEPT ![w].pc = "done", ![w].result = "404",
                                    ![w].rollbacks = @ + 1]
    /\ UNCHANGED << transactions, creations, accepted, pspVars, inflight, probeVars >>

\* COMMIT with nothing written: 'Duplicate webhook ignored'.
CommitDuplicate(w) ==
    /\ handlers[w].pc = "commitDuplicate"
    /\ handlers' = [handlers EXCEPT ![w].pc = "done", ![w].result = "duplicate",
                                    ![w].commits = @ + 1]
    /\ UNCHANGED << transactions, creations, accepted, pspVars, inflight, probeVars >>

\* ROLLBACK after assertTransition threw: 409.
RollbackConflict(w) ==
    /\ handlers[w].pc = "rollbackConflict"
    /\ handlers' = [handlers EXCEPT ![w].pc = "done", ![w].result = "409",
                                    ![w].rollbacks = @ + 1]
    /\ UNCHANGED << transactions, creations, accepted, pspVars, inflight, probeVars >>

\* One write of a webhook's status and amount, as the row's history keeps it.
AcceptedWrite(h) ==
    [status |-> h.newStatus, origin |-> h.origin,
     finalAmount |-> h.payload[1].final_amount]

\* The handle's updateStatus. PostgreSQL: the UPDATE runs inside the open
\* database transaction, so the new row is not visible to others before
\* COMMIT. Map-backed store: the stored object is assigned at once.
HandleUpdateStatus(w) ==
    /\ handlers[w].pc = "updateStatus"
    /\ LET h == handlers[w]
           t == h.transaction[1].id
           updated == SetClauses(transactions[t], h.newStatus,
                          [pspTransactionId |-> Null,
                           finalAmount |-> h.payload[1].final_amount])
       IN  IF WritesInPlace(store)
           THEN /\ transactions' = [transactions EXCEPT ![t] = updated]
                /\ accepted' = [accepted EXCEPT ![t] = Append(@, AcceptedWrite(h))]
                /\ handlers' = [handlers EXCEPT ![w].pc = "commit"]
           ELSE /\ handlers' = [handlers EXCEPT ![w].pc = "commit",
                                                ![w].write = Some(updated)]
                /\ UNCHANGED << transactions, accepted >>
    /\ UNCHANGED << creations, pspVars, inflight, probeVars >>

\* COMMIT after the update: the row becomes visible and the lock is released.
Commit(w) ==
    /\ handlers[w].pc = "commit"
    /\ LET h == handlers[w]
           t == h.transaction[1].id
       IN  /\ IF h.write # Null
              THEN /\ transactions' = [transactions EXCEPT ![t] = h.write[1]]
                   /\ accepted' = [accepted EXCEPT ![t] = Append(@, AcceptedWrite(h))]
              ELSE UNCHANGED << transactions, accepted >>
           /\ handlers' = [handlers EXCEPT ![w].pc = "done", ![w].result = "updated",
                                           ![w].commits = @ + 1]
    /\ UNCHANGED << creations, pspVars, inflight, probeVars >>

\* The route answers the request; the call is over.
Respond(w) ==
    /\ handlers[w].pc = "done"
    /\ handlers' = [handlers EXCEPT ![w] = IdleHandler]
    /\ UNCHANGED << transactions, creations, accepted, pspVars, inflight, probeVars >>

\* ------------------------------------------------------------- the system
\* What a caller other than the simulator may post; final_amount is optional.
ExternalPayloads ==
    {WebhookPayload(p, a, s) :
        p \in PspIds, a \in {Null} \cup {Some(x) : x \in Amounts}, s \in PspStatuses}

Next ==
    \/ \E t \in TxIds, amount \in Amounts, cardNumber \in CardNumbers,
          callbackUrl \in {Null, Some(OtherUrl)} :
            CreateTransaction(t, amount, cardNumber, callbackUrl)
    \/ \E t \in TxIds : CallPspFails(t)
    \/ \E t \in TxIds : processTransaction(t)
    \/ \E t \in TxIds : CreationUpdateStatus(t)
    \/ \E tm \in BagToSet(timers) : ImmediateCallback(tm)
    \/ \E tm \in BagToSet(timers) : DelayTimerCallback(tm)
    \/ \E tm \in BagToSet(timers) : ExpiryTimerCallback(tm)
    \/ \E p \in PspIds : resolve3dsTransaction(p) /\ UNCHANGED resolveLog
    \/ \E m \in BagToSet(inflight) : WebhookFetchFails(m)
    \/ \E w \in Handlers, m \in BagToSet(inflight) : WebhookRequestArrives(w, m)
    \/ \E w \in Handlers, payload \in ExternalPayloads : ExternalWebhook(w, payload)
    \/ \E w \in Handlers : FindAndLock(w)
    \/ \E w \in Handlers : RollbackNotFound(w)
    \/ \E w \in Handlers : CommitDuplicate(w)
    \/ \E w \in Handlers : RollbackConflict(w)
    \/ \E w \in Handlers : HandleUpdateStatus(w)
    \/ \E w \in Handlers : Commit(w)
    \/ \E w \in Handlers : Respond(w)

Spec == Init /\ [][Next]_vars

\* ------------------------------- the state machine called on its own
\* The arguments of one direct call, drawn over every pair of status inputs.
InitStateMachine ==
    /\ InitApp /\ InitPsp
    /\ smCall \in {Some([fn |-> "none", fromStatus |-> f, toStatus |-> t,
                         result |-> "none", message |-> << >>]) :
                       f \in StatusInputs, t \in StatusInputs}
    /\ pspCall = Null
    /\ store = "postgres"
    /\ submissions = << >>

restVars ==
    << transactions, creations, nextPspId, pending3dsTransactions, expiryTimers,
       timers, inflight, handlers, registered, sentLog, resolveFound,
       expiryRemoved, accepted, pspCall, store, resolveLog, createCall, submissions,
       clients >>

CallCanTransition ==
    /\ smCall[1].fn = "none"
    /\ smCall' = Some([smCall[1] EXCEPT !.fn = "canTransition",
           !.result = canTransition(smCall[1].fromStatus, smCall[1].toStatus)])
    /\ UNCHANGED restVars

CallAssertTransition ==
    /\ smCall[1].fn = "none"
    /\ smCall' = Some([smCall[1] EXCEPT !.fn = "assertTransition",
           !.result = assertTransition(smCall[1].fromStatus, smCall[1].toStatus),
           !.message =
               assertTransitionMessage(smCall[1].fromStatus, smCall[1].toStatus)])
    /\ UNCHANGED restVars

CallIsTerminalStatus ==
    /\ smCall[1].fn = "none"
    /\ smCall' = Some([smCall[1] EXCEPT !.fn = "isTerminalStatus",
           !.result = isTerminalStatus(smCall[1].fromStatus)])
    /\ UNCHANGED restVars

NextStateMachine == CallCanTransition \/ CallAssertTransition \/ CallIsTerminalStatus

StateMachineSpec == InitStateMachine /\ [][NextStateMachine]_vars

\* ------------------------------------- processWebhook called as a function
\* processWebhook takes any string as the reported status; the route's
\* schema lets only SUCCESS and FAILED through, a direct caller is not
\* bound by it.
ServicePayloads ==
    {WebhookPayload(p, Some(a), st) :
        p \in PspIds, a \in Amounts, st \in ObjectPrototypeKeys}

DirectProcessWebhook(w, payload) ==
    /\ HandlerFree(w)
    /\ StartProcessWebhook(w, payload, "service")
    /\ UNCHANGED << transactions, creations, accepted, pspVars, inflight, probeVars >>

NextWebhookService ==
    \/ Next
    \/ \E w \in Handlers, payload \in ServicePayloads : DirectProcessWebhook(w, payload)

WebhookServiceSpec == Init /\ [][NextWebhookService]_vars

\* ------------------------------------------- statements that the database fails
\* A findAndLockByPspTransactionId whose rejection is caught by the outer
\* catch of processWebhook.
FindAndLockFailsInsideTry(w) ==
    /\ handlers[w].pc = "findAndLock"
    /\ store = "postgres"
    /\ handlers' = [handlers EXCEPT ![w].pc = "catchRollback"]
    /\ UNCHANGED << transactions, creations, accepted, pspVars, inflight, probeVars >>

\* findAndLockByPspTransactionId rejects (no connection, or BEGIN or the
\* SELECT fails; the store undoes what it began itself): the await is
\* before the try, so the error leaves processWebhook as it is, and the
\* route answers 500 to an error that is not a WebhookError.
FindAndLockFails(w) ==
    /\ handlers[w].pc = "findAndLock"
    /\ store = "postgres"
    /\ handlers' = [handlers EXCEPT ![w].pc = "done", ![w].result = "500"]
    /\ UNCHANGED << transactions, creations, accepted, pspVars, inflight, probeVars >>

\* The UPDATE of the handle's updateStatus rejects: nothing was written, the
\* error is not a WebhookError and the outer catch is entered.
UpdateStatusFails(w) ==
    /\ handlers[w].pc = "updateStatus"
    /\ store = "postgres"
    /\ handlers' = [handlers EXCEPT ![w].pc = "catchRollback"]
    /\ UNCHANGED << transactions, creations, accepted, pspVars, inflight, probeVars >>

\* commit() was called and its COMMIT rejects (duplicate path, or after the
\* update): the database transaction did not commit; the outer catch is entered.
CommitFails(w) ==
    /\ handlers[w].pc \in {"commit", "commitDuplicate"}
    /\ store = "postgres"
    /\ handlers' = [handlers EXCEPT ![w].pc = "catchRollback", ![w].commits = @ + 1]
    /\ UNCHANGED << transactions, creations, accepted, pspVars, inflight, probeVars >>

\* rollback() was called before the 404 or the 409 and its ROLLBACK rejects:
\* the WebhookError is never constructed, so the outer catch is entered with
\* an error that is not a WebhookError.
RollbackFails(w) ==
    /\ handlers[w].pc \in {"rollbackNotFound", "rollbackConflict"}
    /\ store = "postgres"
    /\ handlers' = [handlers EXCEPT ![w].pc = "catchRollback", ![w].rollbacks = @ + 1]
    /\ UNCHANGED << transactions, creations, accepted, pspVars, inflight, probeVars >>

\* The outer catch: the error is not a WebhookError, so rollback() is called
\* and the error is thrown on (the error handler answers 500). Whether this
\* ROLLBACK resolves or rejects, the uncommitted UPDATE is discarded.
CatchRollback(w) ==
    /\ handlers[w].pc = "catchRollback"
    /\ handlers' = [handlers EXCEPT ![w].pc = "done", ![w].result = "500",
                                    ![w].rollbacks = @ + 1, ![w].write = Null]
    /\ UNCHANGED << transactions, creations, accepted, pspVars, inflight, probeVars >>

NextFault ==
    \/ Next
    \/ \E w \in Handlers : FindAndLockFails(w)
    \/ \E w \in Handlers : UpdateStatusFails(w)
    \/ \E w \in Handlers : CommitFails(w)
    \/ \E w \in Handlers : RollbackFails(w)
    \/ \E w \in Handlers : CatchRollback(w)

FaultSpec == Init /\ [][NextFault]_vars

\* ------------------------------------------------ the handle used on its own
\* createApp takes the repository it is given, or the PostgreSQL one.
Stores == {"postgres", "memory"}

\* A PSP id no transaction has, for an update that passes pspTransactionId.
OtherPspId == MaxTx + 1

\* The extraFields a caller of the handle's updateStatus may pass.
ExtraFieldsInputs ==
    [pspTransactionId : {Null, Some(OtherPspId)},
     finalAmount : {Null} \cup {Some(a) : a \in Amounts}]

InitHandle ==
    /\ InitApp /\ InitPsp /\ smCall = Null /\ pspCall = Null
    /\ submissions = << >>
    /\ store \in Stores

\* findAndLockByPspTransactionId called by a caller that then drives the
\* handle itself: the row as read is kept in handle.transaction.
HandleAcquire(w, pspTransactionId) ==
    /\ HandlerFree(w)
    /\ LET found == RowsByPspTransactionId(pspTransactionId)
       IN  /\ \A t \in found : RowLockFree(t)
           /\ handlers' = [handlers EXCEPT ![w] =
                  [IdleHandler EXCEPT !.pc = "held", !.origin = "handle",
                      !.acquired = TRUE,
                      !.payload = Some(WebhookPayload(pspTransactionId, Null, "none")),
                      !.transaction =
                          IF found = {} THEN Null
                          ELSE LET t == CHOOSE x \in found : \A y \in found : x <= y
                                   row == transactions[t]
                               IN  Some([id |-> t, status |-> row.status,
                                         pspTransactionId |-> row.pspTransactionId,
                                         finalAmount |-> row.finalAmount])]]
    /\ UNCHANGED << transactions, creations, accepted, pspVars, inflight, probeVars >>

\* An updateStatus that returns without a word when the handle has no row.
HandleUpdateSilent(w, status, extraFields) ==
    /\ handlers[w].pc = "held"
    /\ ~Found(w)
    /\ handlers' = [handlers EXCEPT ![w].pc = "heldUpdated", ![w].newStatus = status]
    /\ UNCHANGED << transactions, creations, accepted, pspVars, inflight, probeVars >>

\* handle.updateStatus(status, extraFields): on a handle whose lookup found
\* nothing it throws 'Cannot update: transaction not found' before any
\* statement; on a handle with a row it writes.
HandleUpdate(w, status, extraFields) ==
    /\ handlers[w].pc = "held"
    /\ IF ~Found(w)
       THEN /\ handlers' = [handlers EXCEPT ![w].pc = "heldFailed",
                                            ![w].result = "Cannot update"]
            /\ UNCHANGED transactions
       ELSE LET t == FoundRow(w).id
                updated == SetClauses(transactions[t], status, extraFields)
            IN  IF WritesInPlace(store)
                THEN /\ transactions' = [transactions EXCEPT ![t] = updated]
                     /\ handlers' = [handlers EXCEPT ![w].pc = "heldUpdated",
                                                     ![w].newStatus = status]
                ELSE /\ handlers' = [handlers EXCEPT ![w].pc = "heldUpdated",
                                                     ![w].newStatus = status,
                                                     ![w].write = Some(updated)]
                     /\ UNCHANGED transactions
    /\ UNCHANGED << creations, accepted, pspVars, inflight, probeVars >>

\* handle.rollback(): ROLLBACK and release; a no-op of the Map-backed store.
HandleRollback(w) ==
    /\ handlers[w].pc \in {"held", "heldUpdated", "heldFailed"}
    /\ handlers' = [handlers EXCEPT ![w].pc = "done", ![w].result = "rolledBack",
                                    ![w].rollbacks = @ + 1, ![w].write = Null]
    /\ UNCHANGED << transactions, creations, accepted, pspVars, inflight, probeVars >>

\* handle.commit(): COMMIT and release; a no-op of the Map-backed store.
HandleCommit(w) ==
    /\ handlers[w].pc \in {"held", "heldUpdated", "heldFailed"}
    /\ IF handlers[w].write # Null
       THEN transactions' = [transactions EXCEPT ![FoundRow(w).id] = handlers[w].write[1]]
       ELSE UNCHANGED transactions
    /\ handlers' = [handlers EXCEPT ![w].pc = "done", ![w].result = "committed",
                                    ![w].commits = @ + 1]
    /\ UNCHANGED << creations, accepted, pspVars, inflight, probeVars >>

\* Rows come from the creation flow; the handle's callers run beside it.
NextHandle ==
    \/ \E t \in TxIds, amount \in Amounts, cardNumber \in CardNumbers,
          callbackUrl \in {Null, Some(OtherUrl)} :
            CreateTransaction(t, amount, cardNumber, callbackUrl)
    \/ \E t \in TxIds : CallPspFails(t)
    \/ \E t \in TxIds : processTransaction(t)
    \/ \E t \in TxIds : CreationUpdateStatus(t)
    \/ \E w \in Handlers : Respond(w)
    \/ \E w \in Handlers, p \in PspIds : HandleAcquire(w, p)
    \/ \E w \in Handlers, status \in {"SUCCESS", "FAILED"},
          extraFields \in ExtraFieldsInputs : HandleUpdate(w, status, extraFields)
    \/ \E w \in Handlers : HandleRollback(w)
    \/ \E w \in Handlers : HandleCommit(w)

HandleSpec == InitHandle /\ [][NextHandle]_vars

\* ------------------------------- the handle and the service on one store
\* One stored row as a createTransaction call that returned has left it,
\* with either store; callers of the handle and notifications, for the
\* row's PSP id and for an id no row has.
InitHandleService ==
    /\ transactions \in
          { [t \in TxIds |-> [status |-> st, pspTransactionId |-> Some(t),
                              finalAmount |-> Null]] :
              st \in {"PENDING_3DS", "SUCCESS", "FAILED"} }
    /\ accepted = [t \in TxIds |-> << >>]
    /\ creations = [t \in TxIds |-> IdleCreation]
    /\ handlers = [w \in Handlers |-> IdleHandler]
    /\ createCall = Null
    /\ clients = [w \in Handlers |-> IdleClient]
    /\ InitPsp
    /\ smCall = Null /\ pspCall = Null /\ submissions = << >>
    /\ store \in Stores

KnownAndUnknownIds == PspIds \cup {MaxTx + 2}

NextHandleService ==
    \/ \E w \in Handlers, p \in KnownAndUnknownIds, a \in Amounts,
          st \in {"SUCCESS", "FAILED"} :
            ExternalWebhook(w, WebhookPayload(p, Some(a), st))
    \/ \E w \in Handlers : FindAndLock(w)
    \/ \E w \in Handlers : RollbackNotFound(w)
    \/ \E w \in Handlers : CommitDuplicate(w)
    \/ \E w \in Handlers : RollbackConflict(w)
    \/ \E w \in Handlers : HandleUpdateStatus(w)
    \/ \E w \in Handlers : Commit(w)
    \/ \E w \in Handlers : Respond(w)
    \/ \E w \in Handlers, p \in KnownAndUnknownIds : HandleAcquire(w, p)
    \/ \E w \in Handlers, status \in {"SUCCESS", "FAILED"},
          extraFields \in ExtraFieldsInputs : HandleUpdate(w, status, extraFields)
    \/ \E w \in Handlers : HandleRollback(w)
    \/ \E w \in Handlers : HandleCommit(w)

HandleServiceSpec == InitHandleService /\ [][NextHandleService]_vars

\* -------------------------------------- notifications for distinct PSP ids
\* Rows as createTransaction calls that returned have left them: row t has
\* PSP id t, the status the processor answered, and no final amount yet.
StoredRows == 1..(MaxTx + 1)
UnknownPspId == MaxTx + 2

InitRows ==
    /\ transactions \in
          { [t \in StoredRows |-> [status |-> st[t], pspTransactionId |-> Some(t),
                                   finalAmount |-> Null]] :
              st \in [StoredRows -> {"PENDING_3DS", "SUCCESS", "FAILED"}] }
    /\ accepted = [t \in StoredRows |-> << >>]
    /\ creations = [t \in TxIds |-> IdleCreation]
    /\ handlers = [w \in Handlers |-> IdleHandler]
    /\ createCall = Null
    /\ clients = [w \in Handlers |-> IdleClient]
    /\ InitPsp
    /\ smCall = Null /\ pspCall = Null /\ store = "postgres" /\ submissions = << >>

RowsPayloads ==
    {WebhookPayload(p, Some(a), s) :
        p \in StoredRows \cup {UnknownPspId}, a \in Amounts, s \in {"SUCCESS", "FAILED"}}

NextRows ==
    \/ \E w \in Handlers, payload \in RowsPayloads : ExternalWebhook(w, payload)
    \/ \E w \in Handlers : FindAndLock(w)
    \/ \E w \in Handlers : RollbackNotFound(w)
    \/ \E w \in Handlers : CommitDuplicate(w)
    \/ \E w \in Handlers : RollbackConflict(w)
    \/ \E w \in Handlers : HandleUpdateStatus(w)
    \/ \E w \in Handlers : Commit(w)
    \/ \E w \in Handlers : Respond(w)

RowsSpec == InitRows /\ [][NextRows]_vars

\* The whole system built with either store.
StoreSpec == InitHandle /\ [][Next]_vars

\* ------------------------------------------------ create called on its own
\* The Map-backed create is this.transactions.set(record.id, record); the
\* PostgreSQL create is an INSERT into a table whose id is the PRIMARY KEY.
InsertReplaces(repository) == repository = "memory"

\* The record create stores: the data given, no PSP id, no final amount.
NewRecord(status) ==
    [status |-> status, pspTransactionId |-> Null, finalAmount |-> Null]

\* repository.create({id, ..., status}) by a caller that chooses the id.
RepositoryCreate(t, status) ==
    /\ createCall = Null
    /\ IF transactions[t].status # "absent" /\ ~InsertReplaces(store)
       THEN \* unique violation: the INSERT is rejected
            /\ createCall' = Some([id |-> t, existed |-> TRUE, result |-> "error"])
            /\ UNCHANGED transactions
       ELSE /\ createCall' = Some([id |-> t,
                                   existed |-> transactions[t].status # "absent",
                                   result |-> "created"])
            /\ transactions' = [transactions EXCEPT ![t] = NewRecord(status)]
    /\ UNCHANGED << creations, handlers, accepted, pspVars, inflight,
                    smCall, pspCall, store, resolveLog, submissions, clients >>

\* Rows come from the creation flow; a caller of create runs beside it.
NextRepository ==
    \/ \E t \in TxIds, amount \in Amounts, cardNumber \in CardNumbers,
          callbackUrl \in {Null, Some(OtherUrl)} :
            CreateTransaction(t, amount, cardNumber, callbackUrl)
    \/ \E t \in TxIds : CallPspFails(t)
    \/ \E t \in TxIds : processTransaction(t)
    \/ \E t \in TxIds : CreationUpdateStatus(t)
    \/ \E t \in TxIds, status \in STATUSES : RepositoryCreate(t, status)

RepositorySpec == InitHandle /\ [][NextRepository]_vars

\* ------------------------------------------ the simulator and its 3DS route
\* The found field of what resolve3dsTransaction returns.
ResolveResult(pspTransactionId) ==
    [found |-> MapHas(pending3dsTransactions, pspTransactionId)]

\* GET /psp/3ds/:transactionId: 404 when the result is not found, else the page.
Get3dsRoute(pspTransactionId) ==
    /\ Len(resolveLog) < MaxResolves
    /\ resolve3dsTransaction(pspTransactionId)
    /\ resolveLog' = Append(resolveLog,
           [transactionId |-> pspTransactionId,
            code |-> IF ResolveResult(pspTransactionId).found THEN 200 ELSE 404])

\* The simulator serving the creation flow's requests and a client of the
\* 3DS page; notifications are sent and no application handler reads them.
NextSimulator ==
    \/ \E t \in TxIds, amount \in Amounts, cardNumber \in CardNumbers,
          callbackUrl \in {Null, Some(OtherUrl)} :
            CreateTransaction(t, amount, cardNumber, callbackUrl)
    \/ \E t \in TxIds : CallPspFails(t)
    \/ \E t \in TxIds : processTransaction(t)
    \/ \E t \in TxIds : CreationUpdateStatus(t)
    \/ \E tm \in BagToSet(timers) : ImmediateCallback(tm)
    \/ \E tm \in BagToSet(timers) : DelayTimerCallback(tm)
    \/ \E tm \in BagToSet(timers) : ExpiryTimerCallback(tm)
    \/ \E m \in BagToSet(inflight) : WebhookFetchFails(m)
    \/ \E p \in PspIds : Get3dsRoute(p)

SimulatorSpec == Init /\ [][NextSimulator]_vars

\* ------------------------------------------------------- callPsp on its own
\* Text is a sequence of words; a status code is written digit by digit, so
\* that 'status 5' is found in 'status 503'.
Includes(text, part) ==
    \E i \in 0..(Len(text) - Len(part)) : SubSeq(text, i + 1, i + Len(part)) = part

StatusDigits(status) ==
    << ToString(status \div 100), ToString((status \div 10) % 10), ToString(status % 10) >>

\* What one fetch of the processor's endpoint may meet: a connection-level
\* failure (fetch throws TypeError) or a response with a status and a body.
HttpStatuses == {200, 400, 404, 500, 503}
ResponseBodies == { << "Bad", "Request" >>, << "unknown", "status", "5" >> }
FetchOutcomes ==
    { [kind |-> "network", status |-> 0, body |-> << >>] } \cup
    { [kind |-> "response", status |-> st, body |-> b] :
        st \in HttpStatuses, b \in ResponseBodies }

\* response.ok
ResponseOk(o) == o.kind = "response" /\ o.status \in 200..299

\* The error the try block ends with when the fetch met o.
FetchError(o) ==
    IF o.kind = "network"
    THEN [type |-> "TypeError", message |-> << "fetch", "failed" >>]
    ELSE [type |-> "Error",
          message |-> << "PSP", "request", "failed", "with", "status" >>
                      \o StatusDigits(o.status) \o << ":" >> \o o.body]

\* A classification that retries nothing.
isRetryableNever(error) == FALSE

isRetryable(error) ==
    \/ error.type = "TypeError"
    \/ Includes(error.message, << "status", "5" >>)

\* A loop that sleeps after every failure, the last one too.
ShouldSleepAlways(attempt, retryAttempts) == TRUE

\* if (attempt < this.retryAttempts)
ShouldSleep(attempt, retryAttempts) == attempt < retryAttempts

RetryDelayMs == 500

\* A backoff that waits the base delay every time.
BackoffDelayConstant(attempt) == RetryDelayMs

BackoffDelay(attempt) == RetryDelayMs * 2 ^ (attempt - 1)

\* The error thrown after the loop.
ExhaustedError(retryAttempts, lastError) ==
    [type |-> "Error",
     message |-> << "PSP", "request", "failed", "after", ToString(retryAttempts),
                    "attempts", ":" >> \o lastError.message]

\* attempt++ and the loop test: another fetch, or the throw after the loop.
NextIteration(c) ==
    IF c.attempt + 1 <= c.retryAttempts
    THEN [c EXCEPT !.attempt = c.attempt + 1, !.pc = "fetch"]
    ELSE [c EXCEPT !.attempt = c.attempt + 1, !.pc = "thrown",
                   !.thrown = Some(ExhaustedError(c.retryAttempts, c.lastError[1]))]

\* One pass of the loop body on the locals of a call (attempt, lastError)
\* when its fetch settles with outcome o: return, throw, sleep or go on.
AfterFetch(call, o) ==
    LET c == [call EXCEPT !.met = Append(@, o)]
        error == FetchError(o)
        caught == [c EXCEPT !.lastError = Some(error)]
    IN  IF ResponseOk(o)
        THEN [c EXCEPT !.pc = "returned", !.result = Some(o)]
        ELSE IF ~isRetryable(error)
        THEN [caught EXCEPT !.pc = "thrown", !.thrown = Some(error)]
        ELSE IF ShouldSleep(c.attempt, c.retryAttempts)
        THEN [caught EXCEPT !.pc = "sleep",
                            !.sleeps = Append(@, BackoffDelay(c.attempt))]
        ELSE NextIteration(caught)

\* The locals of a call of callPsp that has been made and has not run yet.
CallLocals(retryAttempts) ==
    [pc |-> "called", retryAttempts |-> retryAttempts, attempt |-> 1, met |-> << >>,
     sleeps |-> << >>, lastError |-> Null, result |-> Null, thrown |-> Null]

\* lastError?.message when nothing was caught: the text 'undefined'.
NoLastError == [type |-> "undefined", message |-> << "undefined" >>]

\* A loop that runs its body once before it tests the attempt count.
NewCallBodyFirst(retryAttempts) == [CallLocals(retryAttempts) EXCEPT !.pc = "fetch"]

\* A call of callPsp run to its first await: the loop is entered when
\* 1 <= retryAttempts, and left for the throw after it otherwise.
NewCall(retryAttempts) ==
    IF 1 <= retryAttempts
    THEN [CallLocals(retryAttempts) EXCEPT !.pc = "fetch"]
    ELSE [CallLocals(retryAttempts) EXCEPT !.pc = "thrown",
             !.thrown = Some(ExhaustedError(retryAttempts, NoLastError))]

InitCallPsp ==
    /\ InitApp /\ InitPsp /\ smCall = Null /\ store = "postgres"
    /\ submissions = << >>
    /\ pspCall \in
          { Some(NewCall(n)) : n \in 1..MaxAttempts }

callVars ==
    << transactions, creations, nextPspId, pending3dsTransactions, expiryTimers,
       timers, inflight, handlers, registered, sentLog, resolveFound,
       expiryRemoved, accepted, smCall, store, resolveLog, createCall, submissions,
       clients >>

\* The fetch of this attempt settles with outcome o, and callPsp runs on to
\* its return, its throw or its sleep.
CallPspFetch(o) ==
    /\ pspCall[1].pc = "fetch"
    /\ pspCall' = Some(AfterFetch(pspCall[1], o))
    /\ UNCHANGED callVars

\* The sleep is over.
CallPspWakes ==
    /\ pspCall[1].pc = "sleep"
    /\ pspCall' = Some(NextIteration(pspCall[1]))
    /\ UNCHANGED callVars

NextCallPsp ==
    \/ \E o \in FetchOutcomes : CallPspFetch(o)
    \/ CallPspWakes

CallPspSpec == InitCallPsp /\ [][NextCallPsp]_vars

\* callPsp under any configured attempt count: parseInt of PSP_RETRY_ATTEMPTS
\* may be zero or negative.
AttemptCounts == (0 - MaxAttempts)..MaxAttempts

InitAttemptCounts ==
    /\ InitApp /\ InitPsp /\ smCall = Null /\ store = "postgres"
    /\ submissions = << >>
    /\ pspCall \in { Some(CallLocals(n)) : n \in AttemptCounts }

\* The call runs to its first await, or to its throw.
CallPspEnters ==
    /\ pspCall[1].pc = "called"
    /\ pspCall' = Some(NewCall(pspCall[1].retryAttempts))
    /\ UNCHANGED callVars

NextAttemptCounts ==
    \/ CallPspEnters
    \/ \E o \in FetchOutcomes : CallPspFetch(o)
    \/ CallPspWakes

\* Every fetch settles and every sleep ends.
AttemptCountsSpec ==
    InitAttemptCounts /\ [][NextAttemptCounts]_vars /\ WF_vars(NextAttemptCounts)

\* ------------------------------------------- concurrent calls of callPsp
\* createTransaction calls running at once on one service: retryAttempts and
\* retryDelayMs are fields of the service, attempt and lastError are locals
\* of each call, and sleep is a timer promise the call alone awaits.
Submissions == 1..MaxSubmissions

\* Outcomes of a fetch, with one body for the error responses.
SubmissionOutcomes ==
    {o \in FetchOutcomes : o.kind = "network" \/ o.body = << "Bad", "Request" >>}

InitSubmissions ==
    /\ InitApp /\ InitPsp /\ smCall = Null /\ pspCall = Null /\ store = "postgres"
    /\ submissions \in {[i \in Submissions |-> NewCall(n)] : n \in 1..MaxAttempts}

submissionVars ==
    << transactions, creations, nextPspId, pending3dsTransactions, expiryTimers,
       timers, inflight, handlers, registered, sentLog, resolveFound,
       expiryRemoved, accepted, smCall, pspCall, store, resolveLog, createCall,
       clients >>

\* A loop whose attempt counter is a field of the service, the same for all.
SubmissionFetchSharedAttempt(i, o) ==
    /\ submissions[i].pc = "fetch"
    /\ LET after == AfterFetch(submissions[i], o) IN
       submissions' = [j \in Submissions |->
           IF j = i THEN after
           ELSE [submissions[j] EXCEPT !.attempt = after.attempt]]
    /\ UNCHANGED submissionVars

\* The fetch of call i settles with outcome o.
SubmissionFetch(i, o) ==
    /\ submissions[i].pc = "fetch"
    /\ submissions' = [submissions EXCEPT ![i] = AfterFetch(@, o)]
    /\ UNCHANGED submissionVars

\* The sleep of call i is over.
SubmissionWakes(i) ==
    /\ submissions[i].pc = "sleep"
    /\ submissions' = [submissions EXCEPT ![i] = NextIteration(@)]
    /\ UNCHANGED submissionVars

NextSubmissions ==
    \/ \E i \in Submissions, o \in SubmissionOutcomes : SubmissionFetch(i, o)
    \/ \E i \in Submissions : SubmissionWakes(i)

SubmissionsSpec == InitSubmissions /\ [][NextSubmissions]_vars

\* callPsp run alone against the outcomes met, up to after the last of them.
RECURSIVE RunAlone(_, _)
RunAlone(retryAttempts, met) ==
    IF met = << >> THEN NewCall(retryAttempts)
    ELSE LET before == RunAlone(retryAttempts, SubSeq(met, 1, Len(met) - 1))
             awake == IF before.pc = "sleep" THEN NextIteration(before) ELSE before
         IN  AfterFetch(awake, met[Len(met)])

\* -------------------------------------------- specifications with fairness
\* A scheduled timer callback runs once its delay has passed.
ExpiryFires(p) ==
    \E tm \in BagToSet(timers) : tm.pspTransactionId = p /\ ExpiryTimerCallback(tm)

TimerFairSpec == Spec /\ \A p \in PspIds : WF_vars(ExpiryFires(p))

\* The system under the timing it is built for: every notification sent to
\* the application arrives; the 3DS page is opened by the client, who learns
\* the redirect URL from createTransaction's response; the 5-minute expiry
\* outlasts the creation request that registered the challenge.
CreationReturned(p) ==
    \E t \in TxIds :
        /\ creations[t].pc = "done"
        /\ creations[t].pspResponse[1].transactionId = p

ClientOpens3dsPage(p) ==
    /\ CreationReturned(p)
    /\ resolve3dsTransaction(p)
    /\ UNCHANGED resolveLog

ExpiryElapses(tm) ==
    /\ tm \in BagToSet(timers)
    /\ CreationReturned(tm.pspTransactionId)
    /\ ExpiryTimerCallback(tm)

NextLive ==
    \/ \E t \in TxIds, amount \in Amounts, cardNumber \in CardNumbers,
          callbackUrl \in {Null, Some(OtherUrl)} :
            CreateTransaction(t, amount, cardNumber, callbackUrl)
    \/ \E t \in TxIds : CallPspFails(t)
    \/ \E t \in TxIds : processTransaction(t)
    \/ \E t \in TxIds : CreationUpdateStatus(t)
    \/ \E tm \in BagToSet(timers) : ImmediateCallback(tm)
    \/ \E tm \in BagToSet(timers) : DelayTimerCallback(tm)
    \/ \E tm \in BagToSet(timers) : ExpiryElapses(tm)
    \/ \E p \in PspIds : ClientOpens3dsPage(p)
    \/ \E w \in Handlers, m \in BagToSet(inflight) : WebhookRequestArrives(w, m)
    \/ \E w \in Handlers, payload \in ExternalPayloads : ExternalWebhook(w, payload)
    \/ \E w \in Handlers : FindAndLock(w)
    \/ \E w \in Handlers : RollbackNotFound(w)
    \/ \E w \in Handlers : CommitDuplicate(w)
    \/ \E w \in Handlers : RollbackConflict(w)
    \/ \E w \in Handlers : HandleUpdateStatus(w)
    \/ \E w \in Handlers : Commit(w)
    \/ \E w \in Handlers : Respond(w)

\* A request being handled runs on from each await to the next.
HandlerStep(w) ==
    \/ RollbackNotFound(w)
    \/ CommitDuplicate(w)
    \/ RollbackConflict(w)
    \/ HandleUpdateStatus(w)
    \/ Commit(w)
    \/ Respond(w)

\* Every step of the system itself is taken in the end: the simulator
\* answers, timers run, a sent notification is received, a lock that keeps
\* being released is obtained, a handler runs to its response.  Only the
\* callers' requests (createTransaction, opening the 3DS page, a foreign
\* notification) may never come.
LiveFairness ==
    /\ \A t \in TxIds : WF_vars(processTransaction(t))
    /\ \A t \in TxIds : SF_vars(CreationUpdateStatus(t))
    /\ WF_vars(\E tm \in BagToSet(timers) : ImmediateCallback(tm))
    /\ WF_vars(\E tm \in BagToSet(timers) : DelayTimerCallback(tm))
    /\ WF_vars(\E tm \in BagToSet(timers) : ExpiryElapses(tm))
    /\ SF_vars(\E w \in Handlers, m \in BagToSet(inflight) : WebhookRequestArrives(w, m))
    /\ \A w \in Handlers : SF_vars(FindAndLock(w))
    /\ \A w \in Handlers : WF_vars(HandlerStep(w))

LiveSpec == Init /\ [][NextLive]_vars /\ LiveFairness

\* ================================================================ properties
\* The row a handler found and locked, and the handlers past that point.

\* C1: a stored status changes only along an edge of the transition table
\* (CREATED -> PENDING_3DS | SUCCESS | FAILED, PENDING_3DS -> SUCCESS |
\* FAILED), the insert as CREATED apart; so a row that is SUCCESS or FAILED
\* never changes status again.
C1_StatusMovesAlongTable ==
    [][\A t \in TxIds :
         transactions'[t].status # transactions[t].status =>
            \/ transactions[t].status = "absent" /\ transactions'[t].status = "CREATED"
            \/ << transactions[t].status, transactions'[t].status >> \in
                  { << "CREATED", "PENDING_3DS" >>, << "CREATED", "SUCCESS" >>,
                    << "CREATED", "FAILED" >>, << "PENDING_3DS", "SUCCESS" >>,
                    << "PENDING_3DS", "FAILED" >> }]_vars

\* A 3DS transaction went CREATED -> PENDING_3DS -> terminal, and a later
\* notification for the other terminal status was refused.
C1_Witness ==
    \E t \in TxIds, w \in Handlers :
        /\ creations[t].pc = "done"
        /\ creations[t].pspResponse[1].status = "3DS_REQUIRED"
        /\ transactions[t].status \in {"SUCCESS", "FAILED"}
        /\ Len(accepted[t]) = 1
        /\ handlers[w].pc = "done" /\ handlers[w].result = "409"
        /\ Found(w) /\ FoundRow(w).id = t

\* C2: of two overlapping processWebhook calls for one PSP transaction id,
\* at most one writes the row; when both have finished and the row was not
\* terminal for both, exactly one wrote and the other answered duplicate or
\* 409; a row with a finalAmount carries the status and the finalAmount of
\* one and the same accepted write.
C2_OneWriterPerRow ==
    /\ \A w1, w2 \in Handlers :
          ( /\ w1 # w2
            /\ Found(w1) /\ Found(w2)
            /\ FoundRow(w1).id = FoundRow(w2).id )
          => /\ ~(handlers[w1].write # Null /\ handlers[w2].write # Null)
             /\ ( /\ handlers[w1].pc = "done" /\ handlers[w2].pc = "done"
                  /\ FoundRow(w1).status \notin {"SUCCESS", "FAILED"} )
                => /\ handlers[w1].result = "updated"
                   /\ handlers[w2].result \in {"duplicate", "409"}
    /\ \A t \in TxIds :
          /\ Len(accepted[t]) <= 1
          /\ transactions[t].finalAmount # Null =>
                /\ Len(accepted[t]) = 1
                /\ transactions[t].status = accepted[t][1].status
                /\ transactions[t].finalAmount = accepted[t][1].finalAmount

\* Two calls for one PSP id are both in flight and finished: one wrote, the
\* other, carrying the other status, got the 409.
C2_Witness ==
    \E w1, w2 \in Handlers :
        /\ w1 # w2
        /\ handlers[w1].pc = "done" /\ handlers[w2].pc = "done"
        /\ Found(w1) /\ Found(w2) /\ FoundRow(w1).id = FoundRow(w2).id
        /\ FoundRow(w1).status = "PENDING_3DS"
        /\ handlers[w1].result = "updated"
        /\ handlers[w2].result = "409"
        /\ handlers[w2].payload[1].final_amount # handlers[w1].payload[1].final_amount

\* C4: a terminal notification for a row that already has that terminal
\* status is answered 'Duplicate webhook ignored' and writes nothing: there
\* is one status change, and the stored finalAmount stays the one of the
\* first, accepted notification whatever amount the second carries.
C4_DuplicateIsIdempotent ==
    /\ [](\A w \in Handlers :
            ( /\ Found(w)
              /\ FoundRow(w).status \in {"SUCCESS", "FAILED"}
              /\ FoundRow(w).status = handlers[w].newStatus )
            => /\ handlers[w].pc \in {"commitDuplicate", "done"}
               /\ handlers[w].pc = "done" => handlers[w].result = "duplicate"
               /\ handlers[w].write = Null
               /\ transactions[FoundRow(w).id].status = handlers[w].newStatus
               /\ transactions[FoundRow(w).id].finalAmount = FoundRow(w).finalAmount
               /\ Len(accepted[FoundRow(w).id]) <= 1
               /\ accepted[FoundRow(w).id] # << >> =>
                     transactions[FoundRow(w).id].finalAmount =
                         accepted[FoundRow(w).id][1].finalAmount)
    /\ [][\A w \in Handlers :
            handlers[w].pc = "commitDuplicate" /\ handlers'[w].pc # "commitDuplicate"
            => transactions' = transactions /\ accepted' = accepted]_vars

\* The same terminal status was sent twice with different amounts: the
\* second call answered duplicate and the row has the first amount.
C4_Witness ==
    \E w \in Handlers :
        /\ handlers[w].pc = "done" /\ handlers[w].result = "duplicate"
        /\ Len(accepted[FoundRow(w).id]) = 1
        /\ accepted[FoundRow(w).id][1].status = handlers[w].newStatus
        /\ handlers[w].payload[1].final_amount # Null
        /\ accepted[FoundRow(w).id][1].finalAmount # Null
        /\ handlers[w].payload[1].final_amount # accepted[FoundRow(w).id][1].finalAmount
        /\ transactions[FoundRow(w).id].finalAmount = accepted[FoundRow(w).id][1].finalAmount

\* C5: a notification whose mapped status is the other terminal status than
\* the stored one is answered 409, not as a duplicate; the handle is rolled
\* back with nothing written, and the stored status and finalAmount are
\* after the call what they were before it.
C5_ConflictLeavesRow ==
    /\ [](\A w \in Handlers :
            ( /\ Found(w)
              /\ FoundRow(w).status \in {"SUCCESS", "FAILED"}
              /\ handlers[w].newStatus \in {"SUCCESS", "FAILED"}
              /\ handlers[w].newStatus # FoundRow(w).status )
            => /\ handlers[w].pc \in {"rollbackConflict", "done"}
               /\ handlers[w].pc = "done" => handlers[w].result = "409"
               /\ handlers[w].write = Null
               /\ transactions[FoundRow(w).id].status = FoundRow(w).status
               /\ transactions[FoundRow(w).id].finalAmount = FoundRow(w).finalAmount)
    /\ [][\A w \in Handlers :
            handlers[w].pc = "rollbackConflict" /\ handlers'[w].pc # "rollbackConflict"
            => transactions' = transactions /\ accepted' = accepted]_vars

\* A SUCCESS row with a finalAmount got a FAILED notification: 409, and the
\* row is as it was.
C5_Witness ==
    \E w \in Handlers :
        /\ handlers[w].pc = "done" /\ handlers[w].result = "409"
        /\ FoundRow(w).status = "SUCCESS" /\ handlers[w].newStatus = "FAILED"
        /\ FoundRow(w).finalAmount # Null
        /\ handlers[w].payload[1].final_amount # FoundRow(w).finalAmount
        /\ transactions[FoundRow(w).id].status = "SUCCESS"
        /\ transactions[FoundRow(w).id].finalAmount = FoundRow(w).finalAmount

\* C6: for every registered 3DS challenge, the entry is removed by exactly
\* one of resolve3dsTransaction and the expiry callback, and at most one
\* notification is ever sent for the id: after a resolve that found the
\* entry the expiry timer is cancelled and no FAILED notification is sent;
\* after the expiry removed it, no resolve finds it and no SUCCESS
\* notification is sent.
C6_OneRemovalOneNotification ==
    /\ [](\A p \in DOMAIN registered :
            /\ ~(p \in resolveFound /\ p \in expiryRemoved)
            /\ ~MapHas(pending3dsTransactions, p) <=>
                  (p \in resolveFound \/ p \in expiryRemoved)
            /\ Len(sentLog[p]) +
                  Cardinality({tm \in BagToSet(timers) :
                      tm.kind = "delay" /\ tm.pspTransactionId = p}) <= 1
            /\ \A tm \in BagToSet(timers) : tm.pspTransactionId = p =>
                  CopiesIn(tm, timers) = 1
            /\ p \in resolveFound =>
                  /\ ~MapHas(expiryTimers, p)
                  /\ \A tm \in BagToSet(timers) :
                        tm.pspTransactionId = p => tm.kind # "expiry"
                  /\ \A i \in 1..Len(sentLog[p]) :
                        sentLog[p][i].payload.status = "SUCCESS"
            /\ p \in expiryRemoved =>
                  /\ \A tm \in BagToSet(timers) : tm.pspTransactionId # p
                  /\ \A i \in 1..Len(sentLog[p]) :
                        sentLog[p][i].payload.status = "FAILED")
    /\ [][\A p \in PspIds :
            p \in expiryRemoved => (p \in resolveFound' <=> p \in resolveFound)]_vars

\* A challenge was resolved before its timer fired: the one notification
\* sent is the SUCCESS one and no timer is left.
C6_Witness ==
    \E p \in DOMAIN registered :
        /\ p \in resolveFound
        /\ Len(sentLog[p]) = 1
        /\ sentLog[p][1].payload.status = "SUCCESS"
        /\ timers = EmptyBag

\* C10: a finalAmount is non-null only on a SUCCESS or FAILED row, and once
\* non-null it is never changed by any later step: notification, duplicate,
\* conflict or the creation flow's write.
C10_FinalAmountSetOnce ==
    /\ [](\A t \in TxIds :
            transactions[t].finalAmount # Null =>
                transactions[t].status \in {"SUCCESS", "FAILED"})
    /\ [][\A t \in TxIds :
            transactions[t].finalAmount # Null =>
                transactions'[t].finalAmount = transactions[t].finalAmount]_vars

\* A row has its finalAmount and two later notifications with another
\* amount, one for each terminal status, have been answered.
C10_Witness ==
    \E t \in TxIds, w1, w2 \in Handlers :
        /\ transactions[t].finalAmount # Null
        /\ handlers[w1].pc = "done" /\ handlers[w1].result = "duplicate"
        /\ handlers[w2].pc = "done" /\ handlers[w2].result = "409"
        /\ FoundRow(w1).id = t /\ FoundRow(w2).id = t
        /\ handlers[w1].payload[1].final_amount \notin {Null, transactions[t].finalAmount}
        /\ handlers[w2].payload[1].final_amount \notin {Null, transactions[t].finalAmount}

\* C7: a registered 3DS challenge that is never resolved is in the end
\* removed by its expiry callback (the timer being fair); the callback
\* removes the entry from both maps and sends exactly one notification for
\* the id, FAILED, with the stored amount, to the stored callback URL.
C7_UnresolvedChallengeExpires ==
    /\ \A p \in PspIds :
          MapHas(pending3dsTransactions, p) ~> (p \in resolveFound \/ p \in expiryRemoved)
    /\ [](\A p \in expiryRemoved :
            /\ ~MapHas(pending3dsTransactions, p)
            /\ ~MapHas(expiryTimers, p)
            /\ sentLog[p] =
                  << [callbackUrl |-> registered[p].callbackUrl,
                      payload |-> WebhookPayload(p, Some(registered[p].amount), "FAILED")] >>)

\* An unresolved challenge registered with the larger amount and a callback
\* URL of its own has expired.
C7_Witness ==
    \E p \in expiryRemoved :
        /\ p \notin resolveFound
        /\ registered[p].amount = MaxAmount
        /\ registered[p].callbackUrl = OtherUrl
        /\ Len(sentLog[p]) = 1

\* C3: canTransition(from, to) returns true exactly for the five edges
\* CREATED -> PENDING_3DS | SUCCESS | FAILED and PENDING_3DS -> SUCCESS |
\* FAILED, false for every other pair over the four statuses, and false for
\* a 'from' that is none of the four statuses.
C3_CanTransitionTable ==
    (smCall # Null /\ smCall[1].fn = "canTransition") =>
        smCall[1].result =
            Return(<< smCall[1].fromStatus, smCall[1].toStatus >> \in
                      { << "CREATED", "PENDING_3DS" >>, << "CREATED", "SUCCESS" >>,
                        << "CREATED", "FAILED" >>, << "PENDING_3DS", "SUCCESS" >>,
                        << "PENDING_3DS", "FAILED" >> })

\* C8: every transaction that createTransaction stored as PENDING_3DS
\* reaches SUCCESS or FAILED in the end, timers, notification delivery and
\* request handling being fair; it never stays PENDING_3DS forever.
C8_Pending3dsEndsTerminal ==
    \A t \in TxIds :
        (creations[t].pc = "done" /\ transactions[t].status = "PENDING_3DS")
            ~> (transactions[t].status \in {"SUCCESS", "FAILED"})

\* C9: once processWebhook has returned successfully (updated or duplicate)
\* for the simulator's own terminal notification (status S, amount A) of a
\* transaction that no other caller's notification has written, the stored
\* row has status S and finalAmount A.
C9_NotifiedAmountStored ==
    \A w \in Handlers :
        ( /\ handlers[w].pc = "done"
          /\ handlers[w].origin = "psp"
          /\ handlers[w].result \in {"updated", "duplicate"}
          /\ \A i \in 1..Len(accepted[FoundRow(w).id]) :
                accepted[FoundRow(w).id][i].origin = "psp" )
        => /\ transactions[FoundRow(w).id].status = handlers[w].payload[1].status
           /\ transactions[FoundRow(w).id].finalAmount # Null
           /\ transactions[FoundRow(w).id].finalAmount =
                 handlers[w].payload[1].final_amount

\* C11: with N configured attempts, when the first k < N calls of the
\* processor fail with a connection-level failure or a 5xx response and call
\* k+1 gets an ok response, callPsp returns that response after exactly k+1
\* calls (two 5xx and then a success: three calls).
C11_ReturnsAfterRetries ==
    pspCall # Null =>
        \A k \in 0..(pspCall[1].retryAttempts - 1) :
          /\ ( /\ Len(pspCall[1].met) = k
               /\ \A i \in 1..k :
                     \/ pspCall[1].met[i].kind = "network"
                     \/ pspCall[1].met[i].status \in 500..599 )
             => pspCall[1].pc \in {"fetch", "sleep"} /\ pspCall[1].thrown = Null
          /\
            ( /\ Len(pspCall[1].met) >= k + 1
              /\ \A i \in 1..k :
                    \/ pspCall[1].met[i].kind = "network"
                    \/ pspCall[1].met[i].status \in 500..599
              /\ pspCall[1].met[k + 1].kind = "response"
              /\ pspCall[1].met[k + 1].status \in 200..299 )
            => /\ pspCall[1].pc = "returned"
               /\ pspCall[1].result = Some(pspCall[1].met[k + 1])
               /\ pspCall[1].thrown = Null
               /\ Len(pspCall[1].met) = k + 1
               /\ Len(pspCall[1].sleeps) = k

\* Two 5xx responses and then an ok one: returned after three calls.
C11_Witness ==
    /\ pspCall # Null
    /\ pspCall[1].pc = "returned"
    /\ Len(pspCall[1].met) = 3
    /\ pspCall[1].met[1].status = 500
    /\ pspCall[1].met[2].status = 503
    /\ pspCall[1].result = Some(pspCall[1].met[3])

\* C12: a failure is retried if and only if it is a connection-level
\* failure or a 5xx response; a 4xx response, whatever its body, ends
\* callPsp with that failure right after that attempt: no sleep, no further
\* call.
C12_ClientErrorNeverRetried ==
    pspCall # Null =>
        \A i \in 1..Len(pspCall[1].met) :
            /\ i < Len(pspCall[1].met) =>
                  \/ pspCall[1].met[i].kind = "network"
                  \/ pspCall[1].met[i].status \in 500..599
            /\ ( /\ pspCall[1].met[i].kind = "response"
                 /\ pspCall[1].met[i].status \in 400..499 )
               => /\ Len(pspCall[1].met) = i
                  /\ pspCall[1].pc = "thrown"
                  /\ pspCall[1].thrown = Some(FetchError(pspCall[1].met[i]))
                  /\ Len(pspCall[1].sleeps) = i - 1

\* C13: with N configured attempts, when every call fails with a
\* connection-level failure or a 5xx response, callPsp makes exactly N calls,
\* sleeps exactly N-1 times and never after the N-th failure, and throws
\* 'PSP request failed after N attempts: ' followed by the message of the
\* last failure, never the failure itself.
C13_ExhaustsAfterNAttempts ==
    pspCall # Null =>
        /\ Len(pspCall[1].met) <= pspCall[1].retryAttempts
        /\ Len(pspCall[1].sleeps) <= pspCall[1].retryAttempts - 1
        /\ ( /\ Len(pspCall[1].met) = pspCall[1].retryAttempts
             /\ \A i \in 1..Len(pspCall[1].met) :
                   \/ pspCall[1].met[i].kind = "network"
                   \/ pspCall[1].met[i].status \in 500..599 )
           => /\ pspCall[1].pc = "thrown"
              /\ pspCall[1].result = Null
              /\ Len(pspCall[1].sleeps) = pspCall[1].retryAttempts - 1
              /\ pspCall[1].thrown # Some(FetchError(pspCall[1].met[Len(pspCall[1].met)]))
              /\ pspCall[1].thrown[1].type = "Error"
              /\ pspCall[1].thrown[1].message =
                    << "PSP", "request", "failed", "after",
                       ToString(pspCall[1].retryAttempts), "attempts", ":" >>
                    \o FetchError(pspCall[1].met[Len(pspCall[1].met)]).message

\* Three attempts, a connection failure among the failures and a 5xx last:
\* thrown after two sleeps of 500 and 1000 ms.
C13_Witness ==
    /\ pspCall # Null
    /\ pspCall[1].retryAttempts = 3
    /\ pspCall[1].pc = "thrown"
    /\ Len(pspCall[1].met) = 3
    /\ pspCall[1].met[1].kind = "network"
    /\ pspCall[1].met[2].status = 500
    /\ pspCall[1].met[3].status = 503
    /\ pspCall[1].sleeps = << 500, 1000 >>

\* C14: createTransaction stores and returns the status the card-number
\* prefix determines: 5555 SUCCESS, 4000 FAILED, 4111 PENDING_3DS with a
\* threeDsRedirectUrl, any other prefix FAILED; a threeDsRedirectUrl is
\* returned only with PENDING_3DS, and the returned pspTransactionId is the
\* one stored on the row.
C14_OutcomeByCardPrefix ==
    /\ [](\A t \in TxIds :
            creations[t].response # Null =>
                /\ creations[t].response[1].status =
                      CASE SubSeq(creations[t].cardNumber[1], 1, 4) = << 5, 5, 5, 5 >>
                               -> "SUCCESS"
                        [] SubSeq(creations[t].cardNumber[1], 1, 4) = << 4, 0, 0, 0 >>
                               -> "FAILED"
                        [] SubSeq(creations[t].cardNumber[1], 1, 4) = << 4, 1, 1, 1 >>
                               -> "PENDING_3DS"
                        [] OTHER -> "FAILED"
                /\ creations[t].response[1].threeDsRedirectUrl # Null <=>
                      creations[t].response[1].status = "PENDING_3DS"
                /\ creations[t].response[1].pspTransactionId # Null
                /\ creations[t].response[1].pspTransactionId =
                      transactions[t].pspTransactionId)
    /\ [][\A t \in TxIds :
            (creations[t].response = Null /\ creations'[t].response # Null) =>
                transactions'[t].status = creations'[t].response[1].status]_vars

\* A card with prefix 4111 was stored and returned as PENDING_3DS with its
\* redirect URL.
C14_Witness ==
    \E t \in TxIds :
        /\ creations[t].response # Null
        /\ SubSeq(creations[t].cardNumber[1], 1, 4) = << 4, 1, 1, 1 >>
        /\ creations[t].response[1].threeDsRedirectUrl # Null
        /\ transactions[t].status = "PENDING_3DS"

\* C15: a notification for a PSP id that no stored transaction carries gets
\* the 404 after the handle is rolled back; the call finds no row, writes
\* nothing, and no row is created or changed by its steps.
C15_UnknownIdNotFound ==
    /\ [](\A w \in Handlers :
            handlers[w].result = "404" \/ handlers[w].pc = "rollbackNotFound"
            => /\ handlers[w].transaction = Null
               /\ handlers[w].write = Null)
    /\ [][\A w \in Handlers :
            /\ ( /\ handlers[w].pc = "findAndLock"
                 /\ handlers'[w].pc # "findAndLock"
                 /\ \A t \in TxIds : transactions[t].pspTransactionId #
                                        Some(handlers[w].payload[1].transactionId) )
               => /\ handlers'[w].pc = "rollbackNotFound"
                  /\ transactions' = transactions
            /\ ( /\ handlers[w].pc = "rollbackNotFound"
                 /\ handlers'[w].pc # "rollbackNotFound" )
               => /\ handlers'[w].pc = "done"
                  /\ handlers'[w].result = "404"
                  /\ transactions' = transactions /\ accepted' = accepted]_vars

\* A notification arrived while the only row was still CREATED with no PSP
\* id: 404, and the row is as it was.
C15_Witness ==
    \E w \in Handlers, t \in TxIds :
        /\ handlers[w].pc = "done" /\ handlers[w].result = "404"
        /\ transactions[t].status = "CREATED"
        /\ transactions[t].pspTransactionId = Null

\* C17: a row's pspTransactionId changes at most once, from null to a
\* value, by the creation flow's updateStatus; no step of a notification
\* handler sets, changes or clears it.
C17_PspTransactionIdWriteOnce ==
    [][\A t \in TxIds :
         transactions'[t].pspTransactionId # transactions[t].pspTransactionId =>
            /\ transactions[t].pspTransactionId = Null
            /\ transactions'[t].pspTransactionId # Null
            /\ creations[t].pc = "gotResponse" /\ creations'[t].pc = "done"
            /\ handlers' = handlers]_vars

\* A row got its PSP id from the creation flow and was later written by a
\* notification, the id staying what it was.
C17_Witness ==
    \E t \in TxIds :
        /\ creations[t].pc = "done"
        /\ transactions[t].pspTransactionId = creations[t].response[1].pspTransactionId
        /\ transactions[t].pspTransactionId # Null
        /\ Len(accepted[t]) = 1
        /\ transactions[t].finalAmount # Null

\* C16: a notification whose reported status is neither SUCCESS nor FAILED
\* fails with the 400 before findAndLockByPspTransactionId is called: no
\* handle is acquired, commit and rollback are not called, no row is read.
C16_UnknownStatusFailsFast ==
    \A w \in Handlers :
        ( /\ handlers[w].pc # "idle"
          /\ handlers[w].payload[1].status \notin {"SUCCESS", "FAILED"} )
        => /\ handlers[w].pc = "done"
           /\ handlers[w].result = "400"
           /\ handlers[w].transaction = Null
           /\ handlers[w].commits = 0
           /\ handlers[w].rollbacks = 0

\* C18: every call of processWebhook that acquired the handle and has ended
\* (not found, duplicate, conflict, accepted write, or a failure of
\* updateStatus, commit or rollback) has called exactly one of commit() and
\* rollback(), and called it once.
C18_HandleReleasedExactlyOnce ==
    \A w \in Handlers :
        ( /\ handlers[w].pc = "done"
          /\ handlers[w].acquired
          /\ handlers[w].result \in {"404", "duplicate", "409", "updated", "500"} )
        => handlers[w].commits + handlers[w].rollbacks = 1

\* C20: a call of processWebhook that ends with an error (400, 404, 409, or
\* a failure of updateStatus or commit) leaves the stored row as it was:
\* while the call holds the handle the row is what it read, the step that
\* ends the call with an error writes nothing, and a row that has its PSP id
\* changes only in the COMMIT of an accepted write, which sets the new
\* status together with the notified finalAmount, never one without the other.
C20_ErrorLeavesRowWhole ==
    /\ [](\A w \in Handlers :
            ( /\ Found(w)
              /\ handlers[w].pc \in {"commitDuplicate", "rollbackConflict",
                                      "updateStatus", "commit", "catchRollback"} )
            => /\ transactions[FoundRow(w).id].status = FoundRow(w).status
               /\ transactions[FoundRow(w).id].finalAmount = FoundRow(w).finalAmount
               /\ transactions[FoundRow(w).id].pspTransactionId
                      = FoundRow(w).pspTransactionId)
    /\ [][\A w \in Handlers :
            ( /\ handlers[w].pc # "done"
              /\ handlers'[w].pc = "done"
              /\ handlers'[w].result \in {"400", "404", "409", "500"} )
            => transactions' = transactions /\ accepted' = accepted]_vars
    /\ [][\A t \in TxIds :
            (transactions[t].pspTransactionId # Null /\ transactions'[t] # transactions[t])
            => \E w \in Handlers :
                  /\ handlers[w].pc = "commit"
                  /\ handlers'[w].pc = "done" /\ handlers'[w].result = "updated"
                  /\ FoundRow(w).id = t
                  /\ transactions'[t].status = handlers[w].newStatus
                  /\ transactions'[t].finalAmount =
                        IF handlers[w].payload[1].final_amount # Null
                        THEN handlers[w].payload[1].final_amount
                        ELSE transactions[t].finalAmount
                  /\ transactions'[t].pspTransactionId
                        = transactions[t].pspTransactionId]_vars

\* A SUCCESS notification with an amount for a PENDING_3DS row was updated
\* inside the database transaction, the COMMIT failed, the call ended with
\* the 500: the row is still PENDING_3DS and has no finalAmount.
C20_Witness ==
    \E w \in Handlers :
        /\ handlers[w].pc = "done" /\ handlers[w].result = "500"
        /\ handlers[w].commits = 1
        /\ Found(w)
        /\ FoundRow(w).status = "PENDING_3DS"
        /\ handlers[w].newStatus = "SUCCESS"
        /\ handlers[w].payload[1].final_amount # Null
        /\ transactions[FoundRow(w).id].status = "PENDING_3DS"
        /\ transactions[FoundRow(w).id].finalAmount = Null

\* C19: with either store, the handle's updateStatus followed by rollback()
\* leaves the stored row as it was when the handle was acquired: status,
\* finalAmount and pspTransactionId are unchanged.
C19_RollbackDiscardsUpdate ==
    [][\A w \in Handlers :
          ( /\ handlers[w].pc = "heldUpdated"
            /\ handlers'[w].pc = "done"
            /\ handlers'[w].result = "rolledBack" )
          => /\ transactions'[FoundRow(w).id].status = FoundRow(w).status
             /\ transactions'[FoundRow(w).id].finalAmount = FoundRow(w).finalAmount
             /\ transactions'[FoundRow(w).id].pspTransactionId
                    = FoundRow(w).pspTransactionId]_vars

\* C21: a resolve of an id that is not in the pending registry (never
\* registered, already resolved, already expired) is answered 404, schedules
\* no notification and leaves both registry maps as they were; a resolve of
\* a pending id is answered 200; so after a 200 for an id every later
\* resolve of that id is answered 404.
C21_AbsentIdNotFound ==
    /\ [][\A p \in PspIds :
            ( /\ Len(resolveLog') = Len(resolveLog) + 1
              /\ resolveLog'[Len(resolveLog')].transactionId = p )
            => IF p \in DOMAIN pending3dsTransactions
               THEN resolveLog'[Len(resolveLog')].code = 200
               ELSE /\ resolveLog'[Len(resolveLog')].code = 404
                    /\ timers' = timers
                    /\ pending3dsTransactions' = pending3dsTransactions
                    /\ expiryTimers' = expiryTimers
                    /\ sentLog' = sentLog /\ inflight' = inflight
                    /\ resolveFound' = resolveFound]_vars
    /\ [](\A i, j \in DOMAIN resolveLog :
            ( /\ i < j
              /\ resolveLog[i].transactionId = resolveLog[j].transactionId
              /\ resolveLog[i].code = 200 )
            => resolveLog[j].code = 404)

\* An id was resolved (200), resolved again (404), and one SUCCESS was sent.
C21_Witness ==
    \E i \in DOMAIN resolveLog :
        /\ i + 1 \in DOMAIN resolveLog
        /\ resolveLog[i].code = 200
        /\ resolveLog[i + 1].code = 404
        /\ resolveLog[i + 1].transactionId = resolveLog[i].transactionId
        /\ resolveLog[i].transactionId \notin DOMAIN pending3dsTransactions
        /\ timers = EmptyBag
        /\ Len(sentLog[resolveLog[i].transactionId]) = 1

\* C22: for every PSP id the simulator issued it sends at most one
\* notification: for a SUCCESS or FAILED outcome exactly one, scheduled by
\* processTransaction itself (it is waiting as an immediate callback or has
\* been sent, with the outcome as status); for 3DS_REQUIRED at most one,
\* SUCCESS after a resolve or FAILED after the expiry; an id not issued gets
\* none; and a notification that leaves the network, lost or delivered, is
\* not sent again.
C22_AtMostOneNotification ==
    /\ [](\A p \in PspIds :
            LET sent == sentLog[p]
                waiting(kind) ==
                    {tm \in BagToSet(timers) : tm.kind = kind /\ tm.pspTransactionId = p}
                scheduled(kind) ==
                    IF waiting(kind) = {} THEN 0
                    ELSE CopiesIn(CHOOSE tm \in waiting(kind) : TRUE, timers)
            IN  /\ Len(sent) <= 1
                /\ \A kind \in {"immediate", "delay", "expiry"} :
                       Cardinality(waiting(kind)) <= 1
                /\ p >= nextPspId
                      => sent = << >> /\ \A kind \in {"immediate", "delay", "expiry"} :
                                            waiting(kind) = {}
                /\ (p < nextPspId /\ p \notin DOMAIN registered)
                      => /\ Len(sent) + scheduled("immediate") = 1
                         /\ waiting("delay") = {} /\ waiting("expiry") = {}
                         /\ sent # << >> => sent[1].payload.status \in {"SUCCESS", "FAILED"}
                /\ (p < nextPspId /\ p \in DOMAIN registered)
                      => /\ Len(sent) + scheduled("delay") <= 1
                         /\ waiting("immediate") = {}
                         /\ sent # << >> =>
                               \/ sent[1].payload.status = "SUCCESS" /\ p \in resolveFound
                               \/ sent[1].payload.status = "FAILED" /\ p \in expiryRemoved)
    /\ [][\A p \in PspIds :
            Len(sentLog'[p]) > Len(sentLog[p])
            => /\ BagCardinality(timers') = BagCardinality(timers) - 1
               /\ \A m \in BagToSet(inflight) :
                      CopiesIn(m, inflight') >= CopiesIn(m, inflight)]_vars

\* The SUCCESS of a resolved challenge was sent to the application and lost:
\* nothing waits, no call runs, the row is still PENDING_3DS, one was sent.
C22_Witness ==
    \E p \in PspIds, t \in TxIds :
        /\ p \in resolveFound
        /\ Len(sentLog[p]) = 1
        /\ sentLog[p][1].callbackUrl = AppWebhookUrl
        /\ inflight = EmptyBag /\ timers = EmptyBag
        /\ \A w \in Handlers : handlers[w].pc = "idle"
        /\ transactions[t].pspTransactionId = Some(p)
        /\ transactions[t].status = "PENDING_3DS"

\* C23: with either store, create with an internal id that a row already
\* has fails with an error and leaves that row as it was; the row is never
\* replaced.
C23_CreateRejectsExistingId ==
    [][\A t \in TxIds :
          ( /\ createCall = Null /\ createCall' # Null
            /\ createCall'[1].id = t
            /\ transactions[t].status # "absent" )
          => /\ createCall'[1].result = "error"
             /\ transactions' = transactions]_vars

\* C24: with either store, from one caller's findAndLockByPspTransactionId
\* to that caller's commit() or rollback() no other call for the same PSP id
\* gets a handle: a row's handle is held by at most one processWebhook call,
\* so no two calls validate against the same stored status.
C24_HandleIsExclusive ==
    \A t \in TxIds : Cardinality(RowLockedBy(t)) <= 1

\* C25: the sleep after the failure of attempt k (k < N) lasts
\* retryDelayMs * 2^(k-1): with base 500 the delays are 500, 1000, 2000, ...
\* in this order, one per failed attempt but the last, whatever the kind of
\* retryable failure each attempt met.
C25_BackoffDoubles ==
    pspCall # Null =>
        LET c == pspCall[1]
            table == [k \in 1..(MaxAttempts + 1) |-> 500 * 2 ^ (k - 1)]
        IN  /\ \A k \in DOMAIN c.sleeps : c.sleeps[k] = table[k]
            /\ \A k \in DOMAIN c.sleeps :
                   /\ k < c.retryAttempts
                   /\ k <= Len(c.met)
                   /\ \/ c.met[k].kind = "network"
                      \/ c.met[k].status \notin 200..299
            /\ c.pc = "sleep" => Len(c.sleeps) = Len(c.met)
            /\ c.pc # "sleep" => Len(c.sleeps) \in {Len(c.met) - 1, Len(c.met)}

\* A connection failure, then a 503: the call is in its second sleep, the
\* delays were 500 then 1000.
C25_Witness ==
    /\ pspCall # Null
    /\ pspCall[1].retryAttempts = 3
    /\ pspCall[1].pc = "sleep"
    /\ Len(pspCall[1].met) = 2
    /\ pspCall[1].met[1].kind = "network"
    /\ pspCall[1].met[2].kind = "response" /\ pspCall[1].met[2].status = 503
    /\ pspCall[1].sleeps = << 500, 1000 >>

\* C26: with callPsp calls running at once, the calls made to the
\* processor, the sleeps and the outcome of each call are what that call
\* would have alone against the responses to its own attempts; and while
\* another call sleeps, a call that awaits its fetch can take the response
\* and a call whose own sleep is over can go on.
C26_SubmissionsIndependent ==
    \A i \in DOMAIN submissions :
        LET c == submissions[i]
            alone == RunAlone(c.retryAttempts, c.met)
        IN  /\ \/ c = alone
               \/ alone.pc = "sleep" /\ c = NextIteration(alone)
            /\ c.pc = "fetch" => \A o \in SubmissionOutcomes : ENABLED SubmissionFetch(i, o)
            /\ c.pc = "sleep" => ENABLED SubmissionWakes(i)

\* One call sleeps after its first failure while the other has failed
\* three times and thrown, having slept 500 and 1000.
C26_Witness ==
    \E i, j \in DOMAIN submissions :
        /\ i # j
        /\ submissions[i].pc = "sleep"
        /\ Len(submissions[i].met) = 1
        /\ submissions[i].sleeps = << 500 >>
        /\ submissions[j].pc = "thrown"
        /\ Len(submissions[j].met) = 3
        /\ submissions[j].sleeps = << 500, 1000 >>

\* C27: a processWebhook call for PSP id A changes no row whose PSP id is
\* not A (a row changes only in the COMMIT of a call for its own PSP id),
\* and a handle held for A does not hold up a call for another id: a call
\* whose id no other call holds a handle for can acquire its handle, and a
\* call that has its handle can take each of its steps to the end, whatever
\* handles are held for other ids.
C27_DistinctIdsIndependent ==
    /\ [][\A t \in DOMAIN transactions :
            transactions'[t] # transactions[t]
            => \E w \in Handlers :
                  /\ handlers[w].pc = "commit" /\ handlers'[w].pc = "done"
                  /\ transactions[t].pspTransactionId
                        = Some(handlers[w].payload[1].transactionId)]_vars
    /\ [](\A w \in Handlers :
            /\ ( /\ handlers[w].pc = "findAndLock"
                 /\ \A v \in Handlers \ {w} :
                       ~ ( /\ handlers[v].pc \in {"commitDuplicate", "rollbackConflict",
                                                  "updateStatus", "commit"}
                           /\ handlers[v].payload[1].transactionId
                                 = handlers[w].payload[1].transactionId ) )
               => ENABLED FindAndLock(w)
            /\ handlers[w].pc = "rollbackNotFound" => ENABLED RollbackNotFound(w)
            /\ handlers[w].pc = "commitDuplicate" => ENABLED CommitDuplicate(w)
            /\ handlers[w].pc = "rollbackConflict" => ENABLED RollbackConflict(w)
            /\ handlers[w].pc = "updateStatus" => ENABLED HandleUpdateStatus(w)
            /\ handlers[w].pc = "commit" => ENABLED Commit(w))

\* Two calls hold their handles at once, for two PSP ids, each about to
\* commit its write; neither row has changed yet.
C27_Witness ==
    \E w1, w2 \in Handlers :
        /\ handlers[w1].pc = "commit" /\ handlers[w2].pc = "commit"
        /\ handlers[w1].payload[1].transactionId # handlers[w2].payload[1].transactionId
        /\ FoundRow(w1).id # FoundRow(w2).id
        /\ transactions[FoundRow(w1).id].status = "PENDING_3DS"
        /\ transactions[FoundRow(w2).id].status = "PENDING_3DS"

\* C28: when findAndLockByPspTransactionId itself fails, processWebhook
\* ends at once with that error, which is not a WebhookError (the route
\* answers 500); commit() and rollback() are not called and no row changes.
\* So a call that ended without a handle ended 400 or 500 and called neither.
C28_AcquireFailurePropagates ==
    /\ [][\A w \in Handlers :
            (handlers[w].pc = "findAndLock" /\ ~handlers'[w].acquired
                /\ handlers'[w] # handlers[w])
            => /\ handlers'[w].pc = "done"
               /\ handlers'[w].result = "500"
               /\ handlers'[w].commits = 0 /\ handlers'[w].rollbacks = 0
               /\ transactions' = transactions /\ accepted' = accepted]_vars
    /\ [](\A w \in Handlers :
            (handlers[w].pc = "done" /\ ~handlers[w].acquired)
            => /\ handlers[w].result \in {"400", "500"}
               /\ handlers[w].commits = 0 /\ handlers[w].rollbacks = 0
               /\ handlers[w].transaction = Null /\ handlers[w].write = Null)

\* A SUCCESS notification for a stored PENDING_3DS row met a store that
\* could not be reached: 500, nothing called, the row as it was.
C28_Witness ==
    \E w \in Handlers, t \in TxIds :
        /\ handlers[w].pc = "done" /\ handlers[w].result = "500"
        /\ ~handlers[w].acquired
        /\ handlers[w].newStatus = "SUCCESS"
        /\ transactions[t].pspTransactionId = Some(handlers[w].payload[1].transactionId)
        /\ transactions[t].status = "PENDING_3DS"
        /\ handlers[w].commits = 0 /\ handlers[w].rollbacks = 0

\* C29: with either store, the handle's updateStatus on a handle whose
\* lookup found no transaction fails with an error and writes nothing, and
\* such a handle never carries an update; processWebhook answers 404 before
\* that call, so a call of it that is at updateStatus or at the commit after
\* it has a row.
C29_UpdateWithoutRowFails ==
    /\ [][\A w \in Handlers :
            (handlers[w].pc = "held" /\ handlers[w].transaction = Null
                /\ handlers'[w].pc \notin {"held", "done"})
            => /\ handlers'[w].pc = "heldFailed"
               /\ handlers'[w].result = "Cannot update"
               /\ handlers'[w].write = Null
               /\ transactions' = transactions]_vars
    /\ [](\A w \in Handlers :
            /\ (handlers[w].pc # "idle" /\ handlers[w].transaction = Null)
                  => /\ handlers[w].write = Null
                     /\ handlers[w].pc \notin {"heldUpdated", "updateStatus", "commit"}
            /\ (handlers[w].pc = "done" /\ handlers[w].acquired
                    /\ handlers[w].origin # "handle" /\ handlers[w].transaction = Null)
                  => handlers[w].result = "404")

\* A caller got a handle for an id no row has, called updateStatus and got
\* the error, with the Map-backed store; the stored row is as created.
C29_Witness ==
    \E w \in Handlers, t \in TxIds :
        /\ store = "memory"
        /\ handlers[w].pc = "heldFailed"
        /\ handlers[w].result = "Cannot update"
        /\ handlers[w].transaction = Null
        /\ handlers[w].payload[1].transactionId = MaxTx + 2
        /\ transactions[t].pspTransactionId = Some(t)
        /\ transactions[t].finalAmount = Null

\* C30: over the four statuses the three operations agree: isTerminalStatus(s)
\* is true exactly when canTransition(s, t) is false for every status t,
\* that is for SUCCESS and FAILED and not for CREATED and PENDING_3DS; and
\* assertTransition(from, to) throws the Error "Invalid state transition
\* from 'from' to 'to'" exactly when canTransition(from, to) is false, and
\* returns otherwise.
C30_OperationsAgree ==
    ( /\ smCall # Null
      /\ smCall[1].fromStatus \in {"CREATED", "PENDING_3DS", "SUCCESS", "FAILED"}
      /\ smCall[1].toStatus \in {"CREATED", "PENDING_3DS", "SUCCESS", "FAILED"} )
    => LET from == smCall[1].fromStatus
           to == smCall[1].toStatus
           noEdge(s) ==
               \A t \in {"CREATED", "PENDING_3DS", "SUCCESS", "FAILED"} :
                   canTransition(s, t) = Return(FALSE)
       IN  /\ smCall[1].fn = "isTerminalStatus"
              => /\ smCall[1].result = noEdge(from)
                 /\ smCall[1].result = (from \in {"SUCCESS", "FAILED"})
           /\ smCall[1].fn = "assertTransition"
              => IF canTransition(from, to) = Return(FALSE)
                 THEN /\ smCall[1].result = "Error: Invalid state transition"
                      /\ smCall[1].message =
                            << "Invalid", "state", "transition", "from", "'", from,
                               "'", "to", "'", to, "'" >>
                 ELSE /\ smCall[1].result = "ok"
                      /\ smCall[1].message = << >>
           /\ smCall[1].fn = "canTransition"
              => smCall[1].result \in {Return(TRUE), Return(FALSE)}

\* assertTransition('SUCCESS', 'FAILED') threw its message.
C30_Witness ==
    /\ smCall # Null
    /\ smCall[1].fn = "assertTransition"
    /\ smCall[1].fromStatus = "SUCCESS" /\ smCall[1].toStatus = "FAILED"
    /\ smCall[1].result = "Error: Invalid state transition"
    /\ smCall[1].message = << "Invalid", "state", "transition", "from", "'", "SUCCESS",
                              "'", "to", "'", "FAILED", "'" >>

\* ------------------------------------------------ the pooled connection
\* processWebhook over TransactionRepository, seen from the pool. Each
\* statement sent on the client resolves (resolves = TRUE) or rejects.
connectionRest ==
    << transactions, creations, nextPspId, pending3dsTransactions, expiryTimers,
       timers, inflight, handlers, registered, sentLog, resolveFound,
       expiryRemoved, accepted, smCall, pspCall, store, resolveLog, createCall,
       submissions >>

\* client.release(), after a COMMIT or ROLLBACK that resolved.
Release(c) == [c EXCEPT !.releases = @ + 1]

\* How the call continues on the handle, by what the locking SELECT returned.
AfterSelectPcs ==
    {"rollbackNotFound", "commitDuplicate", "rollbackConflict", "updateStatus"}

\* pool.connect(): a client, or an error that ends the call with no client.
PoolConnect(w, resolves) ==
    /\ clients[w].pc = "idle"
    /\ clients' = [clients EXCEPT ![w] =
           IF resolves THEN [@ EXCEPT !.pc = "begin", !.obtained = TRUE]
           ELSE [@ EXCEPT !.pc = "ended", !.result = "500"]]
    /\ UNCHANGED connectionRest

\* BEGIN. It is awaited before the try of findAndLockByPspTransactionId,
\* whose call is awaited before the try of processWebhook: when it rejects,
\* the error ends the call with nothing run after it.
Begin(w, resolves) ==
    /\ clients[w].pc = "begin"
    /\ clients' = [clients EXCEPT ![w] =
           IF resolves THEN [@ EXCEPT !.pc = "select"]
           ELSE [@ EXCEPT !.pc = "ended", !.result = "500"]]
    /\ UNCHANGED connectionRest

\* The locking SELECT: the handle is returned and processWebhook runs to its
\* next await, or the catch of findAndLockByPspTransactionId is entered.
LockingSelect(w, resolves, next) ==
    /\ clients[w].pc = "select"
    /\ next \in AfterSelectPcs
    /\ clients' = [clients EXCEPT ![w].pc = IF resolves THEN next ELSE "storeCatch"]
    /\ UNCHANGED connectionRest

\* The ROLLBACK of that catch: release and rethrow, or the ROLLBACK's own
\* error leaves the catch.
StoreCatchRollback(w, resolves) ==
    /\ clients[w].pc = "storeCatch"
    /\ clients' = [clients EXCEPT ![w] =
           [(IF resolves THEN Release(@) ELSE @) EXCEPT
               !.pc = "ended", !.result = "500"]]
    /\ UNCHANGED connectionRest

\* rollback() before the 404 or the 409. ROLLBACK resolves: release, and the
\* WebhookError thrown next passes the outer catch untouched. It rejects: no
\* release, and the outer catch is entered with an error that is no WebhookError.
ClientRollback(w, resolves) ==
    /\ clients[w].pc \in {"rollbackNotFound", "rollbackConflict"}
    /\ clients' = [clients EXCEPT ![w] =
           IF resolves
           THEN [Release(@) EXCEPT !.pc = "ended",
                    !.result = IF clients[w].pc = "rollbackNotFound"
                               THEN "404" ELSE "409"]
           ELSE [@ EXCEPT !.pc = "catchRollback"]]
    /\ UNCHANGED connectionRest

\* The handle's UPDATE; the outer catch when it rejects.
ClientUpdate(w, resolves) ==
    /\ clients[w].pc = "updateStatus"
    /\ clients' = [clients EXCEPT ![w].pc =
           IF resolves THEN "commit" ELSE "catchRollback"]
    /\ UNCHANGED connectionRest

\* commit(). COMMIT resolves: release, the call returns. It rejects: no
\* release, the outer catch.
ClientCommit(w, resolves) ==
    /\ clients[w].pc \in {"commitDuplicate", "commit"}
    /\ clients' = [clients EXCEPT ![w] =
           IF resolves
           THEN [Release(@) EXCEPT !.pc = "ended",
                    !.result = IF clients[w].pc = "commit"
                               THEN "updated" ELSE "duplicate"]
           ELSE [@ EXCEPT !.pc = "catchRollback"]]
    /\ UNCHANGED connectionRest

\* The outer catch calls rollback(): release and rethrow, or the ROLLBACK's
\* own error leaves processWebhook.
OuterCatchRollback(w, resolves) ==
    /\ clients[w].pc = "catchRollback"
    /\ clients' = [clients EXCEPT ![w] =
           [(IF resolves THEN Release(@) ELSE @) EXCEPT
               !.pc = "ended", !.result = "500"]]
    /\ UNCHANGED connectionRest

NextConnection ==
    \E w \in Handlers, resolves \in BOOLEAN :
        \/ PoolConnect(w, resolves)
        \/ Begin(w, resolves)
        \/ \E next \in AfterSelectPcs : LockingSelect(w, resolves, next)
        \/ StoreCatchRollback(w, resolves)
        \/ ClientRollback(w, resolves)
        \/ ClientUpdate(w, resolves)
        \/ ClientCommit(w, resolves)
        \/ OuterCatchRollback(w, resolves)

ConnectionSpec == Init /\ [][NextConnection]_vars

\* ------------------------------------------- creations that end in an error
\* Statuses of a processor's answer that statusMapping has no entry for.
UnmappedStatuses == {"REFUNDED", "constructor"}

\* callPsp throws although the processor handled the request: the answer is
\* lost on its way (fetch rejects) or its body cannot be read (the promise of
\* response.json() rejects). createTransaction throws with it.
CallPspFailsAfterRequest(t) ==
    /\ creations[t].pc = "gotResponse"
    /\ creations' = [creations EXCEPT ![t] =
           [@ EXCEPT !.pc = "failed", !.pspResponse = Null]]
    /\ UNCHANGED << transactions, handlers, accepted, pspVars, inflight, probeVars >>

\* The processor at pspBaseUrl answers the request with an id and a status
\* that statusMapping does not know.
ProcessorAnswersUnmapped(t, status) ==
    /\ creations[t].pc = "callPsp"
    /\ nextPspId \in PspIds
    /\ nextPspId' = nextPspId + 1
    /\ creations' = [creations EXCEPT ![t] =
           [@ EXCEPT !.pc = "gotResponse", !.request = Null,
            !.pspResponse = Some([transactionId |-> nextPspId, status |-> status,
                                  threeDsRedirectUrl |-> Null])]]
    /\ UNCHANGED << transactions, handlers, accepted, pending3dsTransactions,
                    expiryTimers, timers, registered, sentLog, resolveFound,
                    expiryRemoved, inflight, probeVars >>

NextCreationFault ==
    \/ Next
    \/ \E t \in TxIds : CallPspFailsAfterRequest(t)
    \/ \E t \in TxIds, status \in UnmappedStatuses : ProcessorAnswersUnmapped(t, status)

CreationFaultSpec == Init /\ [][NextCreationFault]_vars

\* -------------------------------------------------- calls one after another
\* processWebhook run alone on a stored row that the lookup finds: the row
\* it leaves and how it ends.
ProcessWebhookAlone(row, payload) ==
    LET newStatus == PSP_STATUS_MAP(payload.status) IN
    IF newStatus = "undefined"
    THEN [row |-> row, result |-> "400"]
    ELSE IF isTerminalStatus(row.status) /\ row.status = newStatus
    THEN [row |-> row, result |-> "duplicate"]
    ELSE IF assertTransition(row.status, newStatus) # "ok"
    THEN [row |-> row, result |-> "409"]
    ELSE [row |-> SetClauses(row, newStatus,
                     [pspTransactionId |-> Null, finalAmount |-> payload.final_amount]),
          result |-> "updated"]

\* The stored row a call's handle read.
RowRead(w) ==
    [status |-> FoundRow(w).status, pspTransactionId |-> FoundRow(w).pspTransactionId,
     finalAmount |-> FoundRow(w).finalAmount]

\* C31: two notifications, one SUCCESS and one FAILED, are handled at the
\* same time for one transaction that is not terminal. When both calls are
\* over, the stored status and finalAmount are those of the call that got the
\* handle first (the one that read the non-terminal row), the other call
\* read what the first committed and is answered 409, and row and answers are
\* those of the two calls run one after the other in that order.
C31_FirstAcquirerWins ==
    \A w1, w2 \in Handlers :
        ( /\ w1 # w2
          /\ handlers[w1].pc = "done" /\ handlers[w2].pc = "done"
          /\ Found(w1) /\ Found(w2) /\ FoundRow(w1).id = FoundRow(w2).id
          /\ FoundRow(w1).status \notin {"SUCCESS", "FAILED"}
          /\ {handlers[w1].payload[1].status, handlers[w2].payload[1].status}
                = {"SUCCESS", "FAILED"} )
        => LET t == FoundRow(w1).id
               first == ProcessWebhookAlone(RowRead(w1), handlers[w1].payload[1])
               second == ProcessWebhookAlone(first.row, handlers[w2].payload[1])
           IN  /\ handlers[w1].result = "updated"
               /\ handlers[w2].result = "409"
               /\ RowRead(w2) = first.row
               /\ transactions[t].status = handlers[w1].payload[1].status
               /\ transactions[t].finalAmount =
                     IF handlers[w1].payload[1].final_amount # Null
                     THEN handlers[w1].payload[1].final_amount
                     ELSE FoundRow(w1).finalAmount
               /\ transactions[t] = second.row
               /\ handlers[w1].result = first.result
               /\ handlers[w2].result = second.result

\* A FAILED notification got the handle first and wrote its amount; the
\* SUCCESS notification handled at the same time, with another amount, got 409.
C31_Witness ==
    \E w1, w2 \in Handlers :
        /\ w1 # w2
        /\ handlers[w1].pc = "done" /\ handlers[w2].pc = "done"
        /\ Found(w1) /\ Found(w2) /\ FoundRow(w1).id = FoundRow(w2).id
        /\ FoundRow(w1).status = "PENDING_3DS"
        /\ handlers[w1].payload[1].status = "FAILED"
        /\ handlers[w2].payload[1].status = "SUCCESS"
        /\ handlers[w1].payload[1].final_amount = Some(1)
        /\ handlers[w2].payload[1].final_amount = Some(2)
        /\ handlers[w2].result = "409"
        /\ transactions[FoundRow(w1).id].status = "FAILED"
        /\ transactions[FoundRow(w1).id].finalAmount = Some(1)

\* C32: from createTransaction's insert to its updateStatus the stored row
\* stays as inserted (CREATED, no PSP id, no amount) and no processWebhook
\* call holds it: a lookup by PSP id cannot find it before that updateStatus
\* stored the id. So the updateStatus runs on a row that is still CREATED and
\* applies the transition assertTransition validated on the local copy.
C32_CreationUpdatesCreatedRow ==
    [][\A t \in TxIds :
          /\ creations[t].pc \in {"callPsp", "gotResponse"}
             => /\ transactions[t] =
                      [status |-> "CREATED", pspTransactionId |-> Null,
                       finalAmount |-> Null]
                /\ \A w \in Handlers : Found(w) => FoundRow(w).id # t
          /\ (creations[t].pc = "gotResponse" /\ creations'[t].pc = "done")
             => /\ transactions[t].status = "CREATED"
                /\ transactions'[t].status \in {"PENDING_3DS", "SUCCESS", "FAILED"}
                /\ transactions'[t].status =
                      statusMapping(creations[t].pspResponse[1].status)
                /\ transactions'[t].pspTransactionId =
                      Some(creations[t].pspResponse[1].transactionId)
                /\ transactions'[t].finalAmount = Null
      ]_vars

\* A notification for the id the PSP issued was handled before the creation
\* flow stored that id (404), and the creation flow then wrote the row.
C32_Witness ==
    \E t \in TxIds, w \in Handlers :
        /\ creations[t].pc = "done"
        /\ transactions[t].pspTransactionId # Null
        /\ handlers[w].pc = "done" /\ handlers[w].result = "404"
        /\ Some(handlers[w].payload[1].transactionId) = transactions[t].pspTransactionId
        /\ transactions[t].status # "CREATED"

\* C33: the processor answered SUCCESS or FAILED. Its immediate notification
\* is answered 404 when it is handled before the creation flow stored the
\* PSP id and 'Duplicate webhook ignored' when it is handled after; in both
\* orders it writes nothing, and once the creation flow has returned the row
\* has the processor's status, whatever was handled before or after.
C33_DirectOutcomeEitherOrder ==
    \A t \in TxIds :
        ( /\ creations[t].pspResponse # Null
          /\ creations[t].pspResponse[1].status \in {"SUCCESS", "FAILED"} )
        => LET pspResponse == creations[t].pspResponse[1] IN
           /\ creations[t].pc = "done"
              => /\ transactions[t].status = pspResponse.status
                 /\ transactions[t].pspTransactionId = Some(pspResponse.transactionId)
           /\ \A w \in Handlers :
                ( /\ handlers[w].origin = "psp"
                  /\ handlers[w].pc = "done"
                  /\ handlers[w].payload[1].transactionId = pspResponse.transactionId )
                => /\ handlers[w].payload[1].status = pspResponse.status
                   /\ handlers[w].result = IF Found(w) THEN "duplicate" ELSE "404"
                   /\ Found(w) => FoundRow(w).status = pspResponse.status

\* The processor's notification was handled before the PSP id was stored
\* (404); the creation flow has returned and the row has the processor's status.
C33_Witness ==
    \E t \in TxIds, w \in Handlers :
        /\ creations[t].pc = "done"
        /\ creations[t].pspResponse[1].status \in {"SUCCESS", "FAILED"}
        /\ handlers[w].origin = "psp" /\ handlers[w].pc = "done"
        /\ handlers[w].payload[1].transactionId = creations[t].pspResponse[1].transactionId
        /\ handlers[w].result = "404"
        /\ transactions[t].status = creations[t].pspResponse[1].status

\* C34: in every state reached through createTransaction and processWebhook,
\* with either store, a stored transaction has status CREATED exactly when
\* its pspTransactionId is null: the creation flow's one update writes the
\* PSP id together with the first status other than CREATED, and no later
\* update clears the id or writes CREATED.
C34_CreatedIffNoPspId ==
    \A t \in DOMAIN transactions :
        transactions[t].status # "absent"
        => ( /\ transactions[t].status \in STATUSES
             /\ (transactions[t].status = "CREATED")
                   <=> (transactions[t].pspTransactionId = Null) )

\* With the Map-backed store a notification has moved a pending row to
\* SUCCESS; the row still has the PSP id the creation flow stored.
C34_Witness ==
    \E t \in TxIds :
        /\ store = "memory"
        /\ creations[t].pc = "done"
        /\ creations[t].pspResponse[1].status = "3DS_REQUIRED"
        /\ transactions[t].status = "SUCCESS"
        /\ transactions[t].pspTransactionId = Some(creations[t].pspResponse[1].transactionId)
        /\ Len(accepted[t]) = 1

\* C35: when callPsp fails (before or after the processor handled the
\* request) or the processor's status has no mapping, createTransaction
\* throws having written nothing after the insert: the row is CREATED with no
\* PSP id and no amount, and it stays so, no notification, resolve or timer
\* callback finding it afterwards.
C35_FailedCreationLeavesCreatedRow ==
    \A t \in TxIds :
        creations[t].pc = "failed"
        => /\ transactions[t] =
                 [status |-> "CREATED", pspTransactionId |-> Null, finalAmount |-> Null]
           /\ accepted[t] = << >>
           /\ \A w \in Handlers : Found(w) => FoundRow(w).id # t

\* createTransaction threw after the processor had issued an id; the
\* processor's notification for that id was handled afterwards and answered
\* 404, the row being as inserted.
C35_Witness ==
    \E t \in TxIds, w \in Handlers :
        /\ creations[t].pc = "failed"
        /\ nextPspId > 1
        /\ handlers[w].pc = "done" /\ handlers[w].origin = "psp"
        /\ handlers[w].result = "404"
        /\ transactions[t].status = "CREATED"

\* C36: after each operation of the simulator (processTransaction,
\* resolve3dsTransaction, the expiry callback) the keys of
\* pending3dsTransactions are the keys of expiryTimers; the handle kept for
\* a pending id is a scheduled expiry callback for that id, scheduled once,
\* and no expiry callback is scheduled for an id that is not pending.
C36_PendingKeysAreTimerKeys ==
    /\ DOMAIN pending3dsTransactions = DOMAIN expiryTimers
    /\ \A p \in DOMAIN expiryTimers :
          /\ expiryTimers[p].kind = "expiry"
          /\ expiryTimers[p].pspTransactionId = p
          /\ CopiesIn(expiryTimers[p], timers) = 1
    /\ \A tm \in TimersOf("expiry") :
          /\ MapHas(expiryTimers, tm.pspTransactionId)
          /\ expiryTimers[tm.pspTransactionId] = tm

\* A challenge was registered with its timer and then resolved: neither
\* map has its id and its expiry callback is no longer scheduled.
C36_Witness ==
    \E p \in DOMAIN registered :
        /\ p \in resolveFound
        /\ ~MapHas(pending3dsTransactions, p)
        /\ ~MapHas(expiryTimers, p)
        /\ TimersOf("expiry") = {}
        /\ TimersOf("delay") # {}

\* C37: every client that findAndLockByPspTransactionId obtained from the
\* pool is released exactly once by the time the processWebhook call has
\* ended, on every path (the catch after a failed SELECT, commit(),
\* rollback(), and when BEGIN, COMMIT or ROLLBACK itself fails), and is
\* never released twice.
C37_ClientReleasedExactlyOnce ==
    \A w \in Handlers :
        /\ clients[w].releases <= 1
        /\ (clients[w].pc = "ended" /\ clients[w].obtained)
              => clients[w].releases = 1

\* C38: for every configured attempt count N, positive, zero or negative,
\* and whatever the processor answers, callPsp calls the processor at most
\* max(N, 0) times and then ends; with N <= 0 it makes no call and throws
\* 'PSP request failed after N attempts: undefined'.
C38_AtMostNCalls ==
    /\ [](pspCall # Null =>
            LET c == pspCall[1]
                N == c.retryAttempts
            IN  /\ Len(c.met) <= (IF N > 0 THEN N ELSE 0)
                /\ (N <= 0 /\ c.pc # "called")
                      => /\ c.pc = "thrown"
                         /\ c.met = << >> /\ c.sleeps = << >>
                         /\ c.result = Null
                         /\ c.thrown[1].type = "Error"
                         /\ c.thrown[1].message =
                               << "PSP", "request", "failed", "after", ToString(N),
                                  "attempts", ":", "undefined" >>)
    /\ <>(pspCall # Null /\ pspCall[1].pc \in {"returned", "thrown"})

\* Configured with -1 attempts, the call has ended without a call of the
\* processor.
C38_Witness ==
    /\ pspCall # Null
    /\ pspCall[1].retryAttempts = -1
    /\ pspCall[1].pc = "thrown"
    /\ pspCall[1].met = << >>
    /\ pspCall[1].thrown[1].message =
          << "PSP", "request", "failed", "after", "-1", "attempts", ":", "undefined" >>

====
